---- MODULE Spec2Model ----
(***************************************************************************)
(* Shard-splitting resharding core: ReshardingManager::start_resharding    *)
(* and the steps it runs (chain/chain/src/resharding/manager.rs).          *)
(*                                                                         *)
(* One call of start_resharding is followed step by step (pc), so that the *)
(* persistent store is visible between any two of its writes.              *)
(***************************************************************************)
EXTENDS Integers, Sequences, FiniteSets, TLC

\* ------------------------------------------------------------- bounds
\* Accounts of the parent shard are 0 .. NumAccounts-1, compared as numbers.
NumAccounts == 3
\* Number of start_resharding calls followed in one behaviour.
MaxCalls == 2
\* Number of restarts of the node followed in one behaviour.
MaxRestarts == 1

Accounts == 0 .. (NumAccounts - 1)
Values == {1, 2}

RECURSIVE Pow2(_)
Pow2(n) == IF n = 0 THEN 1 ELSE 2 * Pow2(n - 1)

\* Height of the (binary) trie over account names: the least d with 2^d >= NumAccounts.
Depth == CHOOSE d \in 0 .. NumAccounts : Pow2(d) >= NumAccounts /\ \A e \in 0 .. (d - 1) : Pow2(e) < NumAccounts

\* ------------------------------------------------------------- shards and layouts
ShardUId(id) == [version |-> 3, shard_id |-> id]
\* Shards of the layout of the blocks' epoch.
ParentShardIds == {0, 1}
\* The shard that the next layout splits, and its children.
SplitParentId == 0
LeftChildId == 2
RightChildId == 3
AllShardIds == ParentShardIds \cup {LeftChildId, RightChildId}
AllShardUIds == {ShardUId(i) : i \in AllShardIds}
Boundaries == 1 .. (NumAccounts - 1)

\* A layout: its variant, version, shard ids in index order, and the split it
\* makes of a shard of the previous layout (a set: empty, or the one split).
CurLayout == [variant |-> "V2", version |-> 1, shard_ids |-> <<0, 1>>, split |-> {}]
\* Next layout that splits the parent at boundary account b.
SplitLayout(b) == [variant |-> "V2", version |-> 2, shard_ids |-> <<LeftChildId, RightChildId, 1>>, split |-> {[parent_shard |-> ShardUId(SplitParentId), left_child_shard |-> ShardUId(LeftChildId), right_child_shard |-> ShardUId(RightChildId), boundary_account |-> b]}]
\* A changed next layout of the old variant (it also splits the parent).
V1Layout(b) == [SplitLayout(b) EXCEPT !.variant = "V1"]
\* A changed V2 next layout from which no split can be derived.
NoSplitLayout == [variant |-> "V2", version |-> 2, shard_ids |-> <<0, 1>>, split |-> {}]

\* Blocks: 1 is inside an epoch; 2 .. 5 are last blocks of an epoch, followed by
\* an unchanged layout (2), a V1 layout (3), a V2 layout without split (4) and
\* the split layout (5). The block's hash and height are its number.
BlockIds == 1 .. 5
is_next_block_epoch_start(b) == b # 1
get_shard_layout_of_epoch(b) == CurLayout
get_shard_layout_of_next_epoch(b, boundary) ==
    CASE b = 2 -> CurLayout
      [] b = 3 -> V1Layout(boundary)
      [] b = 4 -> NoSplitLayout
      [] OTHER -> SplitLayout(boundary)

\* ReshardingEventType::from_shard_layout: the split of the layout, with the block.
from_shard_layout(layout, block_hash) ==
    {[parent_shard |-> e.parent_shard, left_child_shard |-> e.left_child_shard, right_child_shard |-> e.right_child_shard, boundary_account |-> e.boundary_account, block_hash |-> block_hash] : e \in layout.split}

children_shards(ev) == <<ev.left_child_shard, ev.right_child_shard>>

\* ------------------------------------------------------------- maps
\* A key-value column is a set of <<key, value>> with one value per key.
Has(m, k) == \E p \in m : p[1] = k
Get(m, k) == (CHOOSE p \in m : p[1] = k)[2]
Put(m, k, v) == {p \in m : p[1] # k} \cup {<<k, v>>}
PutAll(m, n) == {p \in m : ~Has(n, p[1])} \cup n

\* ------------------------------------------------------------- trie
\* Account part of a trie: a set of <<account, value>>, one value per account.
\* The tries followed hold any set of accounts, neighbours with different values.
ValueOf(a) == (a % Cardinality(Values)) + 1
Contents == {{<<a, ValueOf(a)>> : a \in A} : A \in SUBSET Accounts}
\* Receipt structures of a trie: gas of the delayed receipts, gas of the
\* receipts buffered for each destination shard, and the destinations that
\* have a ReceiptGroupsQueue (which then accounts for all of them).
NoReceipts == [delayed |-> 0, buffered |-> [d \in ParentShardIds |-> 0], grouped |-> {}]
ReceiptConfigs == {NoReceipts,
                   [delayed |-> 1, buffered |-> [d \in ParentShardIds |-> IF d = 1 THEN 1 ELSE 0], grouped |-> {1}],
                   [delayed |-> 0, buffered |-> [d \in ParentShardIds |-> 1], grouped |-> {0, 1}],
                   [delayed |-> 0, buffered |-> [d \in ParentShardIds |-> IF d = 1 THEN 1 ELSE 0], grouped |-> {}]}
\* A parent whose queue for destination 1 holds more gas than a u64 can.
LargeQueue == [delayed |-> 0, buffered |-> [d \in ParentShardIds |-> IF d = 1 THEN 3 ELSE 0], grouped |-> {1}]
\* Bytes taken by receipts of a given gas (every receipt: 1 gas, 2 bytes).
BytesOf(gas) == gas + gas

Trie(S, r) == [acc |-> S, rcpt |-> r]
\* A node is content addressed (its hash is its content): the root is
\* <<Depth + 1, trie>>, an account node <<height, content below it>> with keys
\* relative to the node.
Root(t) == <<Depth + 1, t>>
EmptyRoot == Root(Trie({}, NoReceipts))
TrieOf(root) == root[2]
KeysOf(root) == root[2].acc

\* retain_split_shard over the account part: top-down walk keeping one side of
\* the boundary account. keep: retained content; read: nodes read (the
\* recorder); created: new nodes.
RECURSIVE RetainNode(_, _, _, _, _)
RetainNode(h, S, lo, boundary, mode) ==
    LET hi == lo + Pow2(h)
        retained == IF mode = "Left" THEN hi <= boundary ELSE lo >= boundary
        discarded == IF mode = "Left" THEN lo >= boundary ELSE hi <= boundary
    IN  IF S = {} \/ discarded THEN [keep |-> {}, read |-> {}, created |-> {}]
        ELSE IF retained THEN [keep |-> S, read |-> {}, created |-> {}]
        ELSE LET half == Pow2(h - 1)
                 S0 == {x \in S : x[1] < half}
                 S1 == {<<x[1] - half, x[2]>> : x \in {y \in S : y[1] >= half}}
                 r0 == RetainNode(h - 1, S0, lo, boundary, mode)
                 r1 == RetainNode(h - 1, S1, lo + half, boundary, mode)
                 keep == r0.keep \cup {<<x[1] + half, x[2]>> : x \in r1.keep}
                 \* a branch left with a single child is squashed, which reads that child
                 squashed == IF keep = S THEN {}
                             ELSE IF r0.keep # {} /\ r1.keep = {} THEN {<<h - 1, S0>>}
                             ELSE IF r0.keep = {} /\ r1.keep # {} THEN {<<h - 1, S1>>}
                             ELSE {}
             IN  [keep |-> keep,
                  read |-> {<<h, S>>} \cup r0.read \cup r1.read \cup squashed,
                  created |-> r0.created \cup r1.created \cup (IF keep # S /\ keep # {} THEN {<<h, keep>>} ELSE {})]

\* Receipt structures kept by a child: the delayed receipts stay with both
\* children, the buffered receipts and their queues with the left child only.
RetainReceipts(r, mode) ==
    IF mode = "Left" THEN r ELSE [delayed |-> r.delayed, buffered |-> [d \in ParentShardIds |-> 0], grouped |-> {}]

retain_split_shard(root, boundary, mode) ==
    LET t == TrieOf(root)
        w == RetainNode(Depth, t.acc, 0, boundary, mode)
        kept == Trie(w.keep, RetainReceipts(t.rcpt, mode))
    IN  [new_root |-> Root(kept),
         insertions |-> w.created \cup (IF kept # t /\ Root(kept) # EmptyRoot THEN {Root(kept)} ELSE {}),
         recorded |-> (IF root # EmptyRoot THEN {root} ELSE {}) \cup w.read]

\* ------------------------------------------------------------- congestion info
\* bootstrap_congestion_info: counters recomputed from the receipts of a trie.
SumBuffered(r) == r.buffered[0] + r.buffered[1]
bootstrap_congestion_info(root, shard_id) ==
    LET r == TrieOf(root).rcpt
    IN  [delayed_receipts_gas |-> r.delayed,
         buffered_receipts_gas |-> SumBuffered(r),
         receipt_bytes |-> BytesOf(r.delayed) + BytesOf(SumBuffered(r)),
         allowed_shard |-> shard_id]

\* ReceiptGroupsQueue::load(trie, shard_id): empty when the trie has no queue
\* for that destination, else the queue's totals.
ReceiptGroupsQueue_load(root, shard_id) ==
    LET r == TrieOf(root).rcpt
    IN  IF shard_id \in r.grouped
        THEN {[total_gas |-> r.buffered[shard_id], total_size |-> BytesOf(r.buffered[shard_id])]}
        ELSE {}

\* The largest u64, in the model's unit of gas (a queue's total gas is a u128).
U64_MAX == 2
\* Mutant: the total is cast with `as u64`, which keeps the low 64 bits.
gas_as_u64(gas) == {gas % (U64_MAX + 1)}
\* gas.try_into(): the u64 of the same value, or none, the panic of the expect().
gas_try_into_u64(gas) == IF gas <= U64_MAX THEN {gas} ELSE {}
\* Mutant: a destination without a queue ends the recomputation with a panic.
no_receipt_group_aborts(ci, rest) == [kind |-> "Panic", value |-> ci]
\* let Some(receipt_groups) = receipt_groups else { continue }: the loop goes
\* on with the other destinations, the counters as they are.
no_receipt_group_found(ci, rest) == rest
\* The loop over the shards of the block's layout: each queue found is
\* subtracted; a subtraction below zero is the panic of the expect().
RECURSIVE RemoveBuffered(_, _, _)
RemoveBuffered(ci, root, shard_ids) ==
    IF shard_ids = <<>> THEN [kind |-> "Ok", value |-> ci]
    ELSE LET q == ReceiptGroupsQueue_load(root, Head(shard_ids))
         IN  IF q = {} THEN no_receipt_group_found(ci, RemoveBuffered(ci, root, Tail(shard_ids)))
             ELSE LET g == CHOOSE x \in q : TRUE
                      converted == gas_try_into_u64(g.total_gas)
                      gas == CHOOSE x \in converted : TRUE
                  IN  IF converted = {} THEN [kind |-> "Panic", value |-> ci]
                      ELSE IF gas > ci.buffered_receipts_gas \/ g.total_size > ci.receipt_bytes
                      THEN [kind |-> "Panic", value |-> ci]
                      ELSE RemoveBuffered([ci EXCEPT !.buffered_receipts_gas = @ - gas, !.receipt_bytes = @ - g.total_size], root, Tail(shard_ids))

\* The two assertions of get_child_congestion_info.
buffered_gas_is_zero(smart_congestion_info) == smart_congestion_info.buffered_receipts_gas = 0
\* Mutant: the two computations are not compared.
congestion_infos_uncompared(congestion_info, smart_congestion_info) == TRUE
congestion_infos_agree(congestion_info, smart_congestion_info) == congestion_info = smart_congestion_info

\* Mutant: the assertions are compiled out, the bootstrapped info is returned.
RecomputedCongestionInfoUnasserted(block, parent_state_root, new_shard_uid, new_state_root, retain_mode, congestion_info) ==
    [kind |-> "Ok", value |-> bootstrap_congestion_info(new_state_root, new_shard_uid.shard_id)]
\* What get_child_congestion_info does for the right child: the subtraction of
\* the parent's queues, the bootstrap from the child trie and the cross-check.
RecomputedCongestionInfo(block, parent_state_root, new_shard_uid, new_state_root, retain_mode, congestion_info) ==
    LET removed == RemoveBuffered(congestion_info, parent_state_root, get_shard_layout_of_epoch(block).shard_ids)
        boot == bootstrap_congestion_info(new_state_root, new_shard_uid.shard_id)
        smart == [removed.value EXCEPT !.allowed_shard = boot.allowed_shard]
    IN  IF removed.kind = "Panic" \/ ~buffered_gas_is_zero(removed.value) \/ ~congestion_infos_agree(boot, smart)
        THEN [kind |-> "Panic", value |-> congestion_info]
        ELSE [kind |-> "Ok", value |-> boot]

\* Mutant: the early return for RetainMode::Left is left out.
get_child_congestion_info_always_recomputed(block, parent_state_root, new_shard_uid, new_state_root, retain_mode, congestion_info) ==
    RecomputedCongestionInfo(block, parent_state_root, new_shard_uid, new_state_root, retain_mode, congestion_info)
get_child_congestion_info(block, parent_state_root, new_shard_uid, new_state_root, retain_mode, congestion_info) ==
    IF retain_mode = "Left" THEN [kind |-> "Ok", value |-> congestion_info]
    ELSE RecomputedCongestionInfo(block, parent_state_root, new_shard_uid, new_state_root, retain_mode, congestion_info)

\* ShardLayout::get_shard_index: 0-based position of the shard id.
get_shard_index(layout, shard_id) == (CHOOSE i \in 1 .. Len(layout.shard_ids) : layout.shard_ids[i] = shard_id) - 1

\* CongestionInfo::finalize_allowed_shard: round robin over all shards by the seed.
finalize_allowed_shard(ci, own_shard, all_shards, seed) ==
    [ci EXCEPT !.allowed_shard = IF Len(all_shards) = 0 THEN own_shard ELSE all_shards[(seed % Len(all_shards)) + 1]]

\* ChunkExtra: state_root, congestion_info (a set: empty when the protocol
\* version has none, else the one info) and the other fields (gas_used).
\* The simplified congestion seed: the shard index alone.
\* Mutant: the seed mixes in the block height.
congestion_seed_with_height(own_shard_index, block_height) == block_height + own_shard_index
congestion_seed_of(own_shard_index, block_height) == own_shard_index
\* Mutant: the child's ChunkExtra is built anew around the state root.
new_chunk_extra_with_state_root(parent_chunk_extra, new_state_root) ==
    [state_root |-> new_state_root, congestion_info |-> parent_chunk_extra.congestion_info, gas_used |-> 0]
clone_with_state_root(parent_chunk_extra, new_state_root) ==
    [parent_chunk_extra EXCEPT !.state_root = new_state_root]
get_child_chunk_extra(block, boundary, parent_chunk_extra, new_state_root, new_shard_uid, retain_mode) ==
    LET child == clone_with_state_root(parent_chunk_extra, new_state_root)
    IN  IF child.congestion_info = {} THEN [kind |-> "Ok", value |-> child]
        ELSE LET ci == CHOOSE x \in child.congestion_info : TRUE
                 got == get_child_congestion_info(block, parent_chunk_extra.state_root, new_shard_uid, new_state_root, retain_mode, ci)
                 next_shard_layout == get_shard_layout_of_next_epoch(block, boundary)
                 own_shard == new_shard_uid.shard_id
                 congestion_seed == congestion_seed_of(get_shard_index(next_shard_layout, own_shard), block)
             IN  IF got.kind # "Ok" THEN [kind |-> got.kind, value |-> child]
                 ELSE [kind |-> "Ok", value |-> [child EXCEPT !.congestion_info = {finalize_allowed_shard(got.value, own_shard, next_shard_layout.shard_ids, congestion_seed)}]]

\* ------------------------------------------------------------- state
VARIABLES
    boundary,      \* boundary account of the split in the next layout (chain state)
    dbMapping,     \* DBCol::StateShardUIdMapping: child ShardUId -> parent ShardUId
    dbChunkExtra,  \* DBCol::ChunkExtra: <<block_hash, ShardUId>> -> ChunkExtra
    dbTransition,  \* DBCol::StateTransitionData: <<block_hash, shard_id>> -> record
    dbState,       \* DBCol::State: set of <<ShardUId prefix, node>>
    memtries,      \* ShardTries' memtries, per ShardUId
    flat,          \* events handed to FlatStorageResharder::start_resharding, in order
    pc,            \* position inside start_resharding ("idle": no call running)
    call,          \* arguments of the running call
    event,         \* the split event of the last call that derived one (a set)
    parentExtra,   \* parent_chunk_extra (a set)
    idx,           \* position in the loop over the two children
    cur,           \* trie_changes, partial_storage, new_state_root of the iteration (a set)
    batch,         \* chain_store_update: records saved and not yet committed
    trieUpdate,    \* trie_store_update: State insertions not yet committed
    result,        \* what the last call returned
    log,           \* steps done by the last call, in order
    ncalls,        \* number of calls started
    flatTask,      \* the flat-storage resharder's background split: "none", "running", "done"
    nrestarts,     \* number of restarts of the node
    keep_going,    \* the flag of each ReshardingHandle: FALSE once the handle is set to stop
    flatStore,     \* persisted flat storage of the split: batches copied, children whose flat storage is ready
    test_loop,     \* the test loop of max_receipt_size.rs: outcomes of the transactions executed so far
    epoch_config_builder, \* a TestEpochConfigBuilder: its fields, the setters called, the EpochConfig built
    run_cmd,       \* a run of the mirror's RunCmd: its options, the secret file read, the outcome
    genesis_builder \* a TestGenesisBuilder: its fields and the Genesis built

\* ReshardingManager::new. The handles that exist: the one the manager makes,
\* and another one.
HandleIds == {1, 2}
resharding_handle == 1
\* Mutant: the controller of the flat-storage resharder gets a handle of its own.
from_new_handle(handle) == CHOOSE h \in HandleIds : h # handle
\* FlatStorageResharderController::from_resharding_handle(resharding_handle.clone()):
\* a clone of a handle shares its flag.
from_resharding_handle(handle) == handle
\* The handle the worker of the flat-storage resharder looks at.
controller_handle == from_resharding_handle(resharding_handle)
\* Number of batches in which the worker copies the flat storage of the parent.
FlatBatches == 2

\* The programs beside the resharding manager, each with a state of its own;
\* NotStarted: the program is not run in this behaviour.
toolVars == <<test_loop, epoch_config_builder, run_cmd, genesis_builder>>
NotStarted == [program |-> "not_started"]
ToolsNotStarted ==
    /\ test_loop = NotStarted
    /\ epoch_config_builder = NotStarted
    /\ run_cmd = NotStarted
    /\ genesis_builder = NotStarted

dbVars == <<dbMapping, dbChunkExtra, dbTransition, dbState>>
localVars == <<parentExtra, idx, cur, batch, trieUpdate>>
vars == <<boundary, dbMapping, dbChunkExtra, dbTransition, dbState, memtries, flat, pc, call, event, parentExtra, idx, cur, batch, trieUpdate, result, log, ncalls, flatTask, nrestarts, keep_going, flatStore, test_loop, epoch_config_builder, run_cmd, genesis_builder>>

NoCall == [block |-> 0, shard_uid |-> ShardUId(0)]
EmptyBatch == [chunk_extras |-> {}, transitions |-> {}]
NotLoaded == [loaded |-> FALSE, frozen |-> FALSE, roots |-> {}, nodes |-> {}]

\* All nodes of the account part below a node of height h with content S.
RECURSIVE NodesBelow(_, _)
NodesBelow(h, S) ==
    IF S = {} THEN {}
    ELSE IF h = 0 THEN {<<h, S>>}
    ELSE LET half == Pow2(h - 1)
         IN  {<<h, S>>} \cup NodesBelow(h - 1, {x \in S : x[1] < half})
                        \cup NodesBelow(h - 1, {<<x[1] - half, x[2]>> : x \in {y \in S : y[1] >= half}})
NodesOf(root) == IF root = EmptyRoot THEN {} ELSE {root} \cup NodesBelow(Depth, KeysOf(root))

\* What the congestion-info field of a stored ChunkExtra may be: absent (the
\* protocol version has none); the counters of the trie, with either shard
\* allowed; or counters that disagree with the trie by one byte.
StoredCongestionInfos(root, shard_id) ==
    LET exact == bootstrap_congestion_info(root, shard_id)
    IN  {{}} \cup {{[exact EXCEPT !.allowed_shard = a]} : a \in ParentShardIds}
             \cup {{[exact EXCEPT !.allowed_shard = 1 - shard_id, !.receipt_bytes = @ + 1]}}
\* Stored counters that are below what the trie holds: the buffered gas short
\* by one or absent, or the bytes short by one.
ShortCongestionInfos(root, shard_id) ==
    LET exact == bootstrap_congestion_info(root, shard_id)
    IN  {{[exact EXCEPT !.buffered_receipts_gas = g]} : g \in {x \in {0, exact.buffered_receipts_gas - 1} : x >= 0 /\ x < exact.buffered_receipts_gas}}
        \cup {{[exact EXCEPT !.receipt_bytes = b]} : b \in {x \in {exact.receipt_bytes - 1} : x >= 0}}
\* The ChunkExtra of the last chunk of a parent shard at a block.
ParentChunkExtra(b, root, congestion_info) ==
    [state_root |-> root, congestion_info |-> congestion_info, gas_used |-> b]

\* The state after construction, on a node whose store holds the ChunkExtra of
\* the split parent for the last block of the epoch (persisted = TRUE) or not.
InitManagerWith(persisted, receipts, short) ==
    \E S \in Contents, r \in receipts, bnd \in Boundaries, loaded \in BOOLEAN :
      \E ci \in StoredCongestionInfos(Root(Trie(S, r)), SplitParentId)
                    \cup (IF short THEN ShortCongestionInfos(Root(Trie(S, r)), SplitParentId) ELSE {}),
         present \in persisted :
        LET root == Root(Trie(S, r))
        IN  /\ boundary = bnd
            /\ dbMapping = {}
            /\ dbChunkExtra = {<<<<b, ShardUId(SplitParentId)>>, ParentChunkExtra(b, root, ci)>> : b \in {x \in BlockIds : present \/ x # 5}}
                              \cup {<<<<b, ShardUId(1)>>, ParentChunkExtra(b, EmptyRoot, IF ci = {} THEN {} ELSE {bootstrap_congestion_info(EmptyRoot, 1)})>> : b \in BlockIds}
            /\ dbTransition = {}
            /\ dbState = {<<ShardUId(SplitParentId), n>> : n \in NodesOf(root)}
            /\ memtries = [u \in AllShardUIds |->
                             IF u = ShardUId(SplitParentId) THEN [loaded |-> loaded, frozen |-> FALSE, roots |-> IF loaded THEN {root} ELSE {}, nodes |-> {}]
                             ELSE IF u = ShardUId(1) THEN [loaded |-> TRUE, frozen |-> FALSE, roots |-> {EmptyRoot}, nodes |-> {}]
                             ELSE NotLoaded]
            /\ flat = <<>>
            /\ pc = "idle"
            /\ call = NoCall
            /\ event = {}
            /\ parentExtra = {}
            /\ idx = 0
            /\ cur = {}
            /\ batch = EmptyBatch
            /\ trieUpdate = {}
            /\ result = "None"
            /\ log = <<>>
            /\ ncalls = 0
            /\ flatTask = "none"
            /\ nrestarts = 0
            /\ keep_going = [h \in HandleIds |-> TRUE]
            /\ flatStore = [copied |-> 0, ready |-> {}]
\* The parents followed: receipts within a u64, stored counters not below the trie's.
InitManager(persisted) == InitManagerWith(persisted, ReceiptConfigs, FALSE)
InitWith(persisted) == InitManager(persisted) /\ ToolsNotStarted
Init == InitWith({TRUE})

\* The call returns: its batches are dropped with it.
Return(res) ==
    /\ pc' = "idle"
    /\ result' = res
    /\ call' = NoCall
    /\ parentExtra' = {}
    /\ idx' = 0
    /\ cur' = {}
    /\ batch' = EmptyBatch
    /\ trieUpdate' = {}

\* start_resharding is called for a block and a shard of the block's layout.
Call ==
    /\ pc = "idle"
    /\ ncalls < MaxCalls
    /\ \E b \in BlockIds, s \in ParentShardIds : call' = [block |-> b, shard_uid |-> ShardUId(s)]
    /\ pc' = "gate"
    /\ ncalls' = ncalls + 1
    /\ result' = "None"
    /\ log' = <<>>
    /\ event' = {}
    /\ UNCHANGED <<boundary, toolVars, dbVars, memtries, flat, localVars, flatTask, nrestarts, keep_going, flatStore>>

\* The gate of start_resharding and split_shard.
\* Mutant: the epoch-boundary test is left out.
next_block_has_new_shard_layout_any_block(b, bnd) ==
    get_shard_layout_of_epoch(b) # get_shard_layout_of_next_epoch(b, bnd)
next_block_has_new_shard_layout(b, bnd) ==
    is_next_block_epoch_start(b) /\ get_shard_layout_of_epoch(b) # get_shard_layout_of_next_epoch(b, bnd)
\* Mutant: the variant test only excludes V0.
is_not_v0(layout) == layout.variant # "V0"
is_v2(layout) == layout.variant = "V2"
\* Mutant: only the layout versions of the two ShardUIds are compared.
parent_version_matches(ev, shard_uid) == ev.parent_shard.version = shard_uid.version
parent_matches(ev, shard_uid) == ev.parent_shard = shard_uid
\* What start_resharding and split_shard decide for the call: one of the four
\* skips (named by the message logged), or "split".
GateDecision(b, shard_uid, bnd) ==
    LET next_shard_layout == get_shard_layout_of_next_epoch(b, bnd)
        resharding_event_type == from_shard_layout(next_shard_layout, b)
    IN  IF ~next_block_has_new_shard_layout(b, bnd) THEN "same_layout"
        ELSE IF ~is_v2(next_shard_layout) THEN "not_v2"
        ELSE IF resharding_event_type = {} THEN "no_event"
        ELSE IF ~parent_matches(CHOOSE ev \in resharding_event_type : TRUE, shard_uid) THEN "parent_mismatch"
        ELSE "split"

Gate ==
    /\ pc = "gate"
    /\ LET decision == GateDecision(call.block, call.shard_uid, boundary)
       IN  IF decision # "split"
           THEN /\ Return("Ok")
                /\ log' = <<<<decision, call.shard_uid.shard_id>>>>
                /\ UNCHANGED event
           ELSE /\ event' = from_shard_layout(get_shard_layout_of_next_epoch(call.block, boundary), call.block)
                /\ pc' = "set_mapping"
                /\ UNCHANGED <<result, call, localVars, log>>
    /\ UNCHANGED <<boundary, toolVars, dbVars, memtries, flat, ncalls, flatTask, nrestarts, keep_going, flatStore>>

TheEvent == CHOOSE ev \in event : TRUE

\* set_state_shard_uid_mapping: its own store update, committed at once.
\* Mutant: the loop over the children stops after the left child.
MappingEntriesLeftOnly(ev) == {<<ev.left_child_shard, ev.parent_shard>>}
MappingEntries(ev) == {<<children_shards(ev)[i], ev.parent_shard>> : i \in 1 .. 2}
SetMapping ==
    /\ pc = "set_mapping"
    /\ \E ok \in BOOLEAN :
        IF ok
        THEN /\ dbMapping' = PutAll(dbMapping, MappingEntries(TheEvent))
             /\ log' = Append(log, <<"set_mapping", TheEvent.parent_shard.shard_id>>)
             /\ pc' = "freeze"
             /\ UNCHANGED <<result, call, localVars>>
        ELSE /\ Return("Err:Io")
             /\ UNCHANGED <<dbMapping, log>>
    /\ UNCHANGED <<boundary, toolVars, dbChunkExtra, dbTransition, dbState, memtries, flat, event, ncalls, flatTask, nrestarts, keep_going, flatStore>>

\* A panic: the process is gone, and no further step is taken.
Crash ==
    /\ pc' = "crashed"
    /\ result' = "Panic"
    /\ UNCHANGED <<call, localVars>>

\* tries.freeze_mem_tries(parent_shard_uid, children): the parent memtrie becomes
\* immutable and each child gets a memtrie that shares the parent's roots.
\* A parent that is not loaded gives an error, or leaves the children unloaded;
\* a parent that was frozen before (a second finalization) crashes.
freeze_mem_tries(m, parent, children) ==
    [u \in AllShardUIds |->
        IF u = parent THEN [m[u] EXCEPT !.frozen = TRUE]
        ELSE IF \E i \in 1 .. Len(children) : children[i] = u THEN [loaded |-> TRUE, frozen |-> FALSE, roots |-> m[parent].roots, nodes |-> {}]
        ELSE m[u]]
Freeze ==
    /\ pc = "freeze"
    /\ LET parent_shard_uid == call.shard_uid
       IN  IF ~memtries[parent_shard_uid].loaded
           THEN /\ \E err \in BOOLEAN :
                      IF err THEN Return("Err:Storage") ELSE (pc' = "get_chunk_extra" /\ UNCHANGED <<result, call, localVars>>)
                /\ UNCHANGED memtries
           ELSE IF memtries[parent_shard_uid].frozen
           THEN Crash /\ UNCHANGED memtries
           ELSE /\ memtries' = freeze_mem_tries(memtries, parent_shard_uid, children_shards(TheEvent))
                /\ pc' = "get_chunk_extra"
                /\ UNCHANGED <<result, call, localVars>>
    /\ log' = Append(log, <<"freeze", call.shard_uid.shard_id>>)
    /\ UNCHANGED <<boundary, toolVars, dbVars, flat, event, ncalls, flatTask, nrestarts, keep_going, flatStore>>

\* get_chunk_extra(block_hash, parent_shard_uid), then the empty trie_store_update.
\* Mutant: a ChunkExtra that is not in the store is replaced by a default one.
get_chunk_extra_or_default(chunk_extras, block_hash, shard_uid) ==
    IF Has(chunk_extras, <<block_hash, shard_uid>>) THEN {Get(chunk_extras, <<block_hash, shard_uid>>)}
    ELSE {ParentChunkExtra(block_hash, EmptyRoot, {})}
\* get_chunk_extra: the value under get_block_shard_uid(block_hash, shard_uid),
\* or none, which is the DBNotFoundErr.
get_chunk_extra(chunk_extras, block_hash, shard_uid) ==
    IF Has(chunk_extras, <<block_hash, shard_uid>>) THEN {Get(chunk_extras, <<block_hash, shard_uid>>)} ELSE {}
GetChunkExtra ==
    /\ pc = "get_chunk_extra"
    /\ LET got == get_chunk_extra(dbChunkExtra, call.block, call.shard_uid)
       IN  \E ok \in BOOLEAN :
            IF ok /\ got # {}
            THEN /\ parentExtra' = got
                 /\ trieUpdate' = {}
                 /\ idx' = 1
                 /\ pc' = "retain"
                 /\ UNCHANGED <<result, call, cur, batch>>
            ELSE Return("Err:DBNotFound")
    /\ UNCHANGED <<boundary, toolVars, dbVars, memtries, flat, event, log, ncalls, flatTask, nrestarts, keep_going, flatStore>>

\* Mutants of the loop's list: both children retained with RetainMode::Left;
\* the retain modes exchanged; the right child first.
ChildrenBothLeft(ev) == <<[uid |-> ev.left_child_shard, mode |-> "Left"], [uid |-> ev.right_child_shard, mode |-> "Left"]>>
ChildrenModesExchanged(ev) == <<[uid |-> ev.left_child_shard, mode |-> "Right"], [uid |-> ev.right_child_shard, mode |-> "Left"]>>
ChildrenRightFirst(ev) == <<[uid |-> ev.right_child_shard, mode |-> "Right"], [uid |-> ev.left_child_shard, mode |-> "Left"]>>
\* The children in the order of the loop, each with its retain mode.
Children(ev) == <<[uid |-> ev.left_child_shard, mode |-> "Left"], [uid |-> ev.right_child_shard, mode |-> "Right"]>>
TheChild == Children(TheEvent)[idx]
TheParentExtra == CHOOSE x \in parentExtra : TRUE
TheCur == CHOOSE x \in cur : TRUE

\* First half of an iteration: get_mem_tries, update at the parent's state root,
\* retain_split_shard, apply_memtrie_changes.
apply_memtrie_changes(mt, changes) == [mt EXCEPT !.roots = @ \cup {changes.new_root}, !.nodes = @ \cup changes.insertions]
\* The memtries that an iteration takes, walks and installs the new root in.
\* Mutant: the parent's memtries are taken.
mem_tries_of_parent(new_shard_uid, parent_shard_uid) == parent_shard_uid
mem_tries_walked(new_shard_uid, parent_shard_uid) == new_shard_uid
\* Mutant: the walks split one account after the boundary account.
boundary_account_next(split_shard_event) == split_shard_event.boundary_account + 1
\* The boundary account of the walks: the event's.
boundary_account_of(split_shard_event) == split_shard_event.boundary_account

\* Mutant: the walk tracks refcounts only, its accesses are not recorded.
recorded_storage_untracked(previous, read) == {}
\* Mutant: one recorder serves both walks and keeps what the earlier walk read.
recorded_storage_shared(previous, read) == previous \cup read
\* The recorder of an iteration is created empty by that iteration, so its
\* recorded storage is what this walk read, whatever was recorded before.
recorded_storage(previous, read) == read

\* Mutant: a walk starts from the root the iteration before it installed.
walk_state_root_of_previous(parent_chunk_extra, chunk_extras) ==
    IF chunk_extras = {} THEN parent_chunk_extra.state_root
    ELSE (CHOOSE p \in chunk_extras : TRUE)[2].state_root
\* The root a walk starts from: mem_tries.update(*parent_chunk_extra.state_root(), mode),
\* whatever the iterations before have saved.
walk_state_root(parent_chunk_extra, chunk_extras) == parent_chunk_extra.state_root

Retain ==
    /\ pc = "retain"
    /\ LET new_shard_uid == TheChild.uid
           walked == mem_tries_walked(new_shard_uid, call.shard_uid)
           state_root == walk_state_root(TheParentExtra, batch.chunk_extras)
           trie_changes == retain_split_shard(state_root, boundary_account_of(TheEvent), TheChild.mode)
           previous == UNION {p[2].partial_state : p \in batch.transitions}
           partial_storage == recorded_storage(previous, trie_changes.recorded)
       IN  IF ~memtries[walked].loaded
           THEN Return("Err:MemtrieNotLoaded") /\ UNCHANGED <<memtries, log>>
           ELSE IF state_root \notin memtries[walked].roots
           THEN Return("Err:Storage") /\ UNCHANGED <<memtries, log>>
           ELSE /\ memtries' = [memtries EXCEPT ![walked] = apply_memtrie_changes(@, trie_changes)]
                /\ cur' = {[trie_changes |-> trie_changes, partial_storage |-> partial_storage, new_state_root |-> trie_changes.new_root]}
                /\ log' = log \o <<<<"retain", new_shard_uid.shard_id>>, <<"install_root", new_shard_uid.shard_id>>>>
                /\ pc' = "save"
                /\ UNCHANGED <<result, call, parentExtra, idx, batch, trieUpdate>>
    /\ UNCHANGED <<boundary, toolVars, dbVars, flat, event, ncalls, flatTask, nrestarts, keep_going, flatStore>>

\* What save_chunk_extra and save_state_transition_data put into the batch.
\* Mutant: the saved ChunkExtra carries the number of the attempt.
SavedChunkExtrasOfAttempt(block_hash, new_shard_uid, child_chunk_extra) ==
    {<<<<block_hash, new_shard_uid>>, [child_chunk_extra EXCEPT !.gas_used = ncalls]>>}
SavedChunkExtras(block_hash, new_shard_uid, child_chunk_extra) == {<<<<block_hash, new_shard_uid>>, child_chunk_extra>>}
\* Mutant: the record is saved without the recorded storage.
SavedTransitionsWithoutStorage(block_hash, new_shard_uid, partial_storage) ==
    {<<<<block_hash, new_shard_uid.shard_id>>, [partial_state |-> {}, contract_accesses |-> {}]>>}
SavedTransitions(block_hash, new_shard_uid, partial_storage) ==
    {<<<<block_hash, new_shard_uid.shard_id>>, [partial_state |-> partial_storage, contract_accesses |-> {}]>>}

\* tries.apply_insertions(trie_changes, shard_uid, store_update): the new nodes,
\* each under the prefix the committed mapping gives for shard_uid.
KeyPrefix(mapping, shard_uid) == IF Has(mapping, shard_uid) THEN Get(mapping, shard_uid) ELSE shard_uid
apply_insertions(trie_changes, shard_uid, mapping) == {<<KeyPrefix(mapping, shard_uid), n>> : n \in trie_changes.insertions}

\* Mutant: an error while a child's ChunkExtra is built undoes the freeze and
\* drops the children's memtries.
memtries_unfrozen(m, split_shard_event) ==
    [u \in AllShardUIds |->
        IF u = split_shard_event.parent_shard THEN [m[u] EXCEPT !.frozen = FALSE]
        ELSE IF u \in {split_shard_event.left_child_shard, split_shard_event.right_child_shard}
        THEN [loaded |-> FALSE, frozen |-> FALSE, roots |-> {}, nodes |-> {}]
        ELSE m[u]]
\* The memtries after get_child_chunk_extra(..)? returned its error: nothing
\* takes back freeze_mem_tries or apply_memtrie_changes.
memtries_after_error(m, split_shard_event) == m

\* Second half of an iteration: get_child_chunk_extra, the two saves, apply_insertions.
Save ==
    /\ pc = "save"
    /\ LET new_shard_uid == TheChild.uid
           got == get_child_chunk_extra(call.block, boundary, TheParentExtra, TheCur.new_state_root, new_shard_uid, TheChild.mode)
       IN  \E ok \in BOOLEAN :
            IF ~ok /\ TheParentExtra.congestion_info # {}
            THEN Return("Err:Io") /\ memtries' = memtries_after_error(memtries, TheEvent) /\ UNCHANGED log
            ELSE IF got.kind = "Panic"
            THEN Crash /\ UNCHANGED <<memtries, log>>
            ELSE /\ UNCHANGED memtries
                 /\ batch' = [chunk_extras |-> PutAll(batch.chunk_extras, SavedChunkExtras(call.block, new_shard_uid, got.value)),
                              transitions |-> PutAll(batch.transitions, SavedTransitions(call.block, new_shard_uid, TheCur.partial_storage))]
                 /\ trieUpdate' = trieUpdate \cup apply_insertions(TheCur.trie_changes, new_shard_uid, dbMapping)
                 /\ log' = log \o <<<<"save_chunk_extra", new_shard_uid.shard_id>>, <<"save_state_transition_data", new_shard_uid.shard_id>>, <<"apply_insertions", new_shard_uid.shard_id>>>>
                 /\ idx' = idx + 1
                 /\ cur' = {}
                 /\ pc' = IF idx = Len(Children(TheEvent)) THEN "commit" ELSE "retain"
                 /\ UNCHANGED <<result, call, parentExtra>>
    /\ UNCHANGED <<boundary, toolVars, dbVars, flat, event, ncalls, flatTask, nrestarts, keep_going, flatStore>>

\* chain_store_update.merge(trie_store_update); chain_store_update.commit()?
\* and what split_shard does next.
\* Mutant: the result of commit() is not looked at.
AfterCommitUnchecked(ok) == "flat"
AfterCommit(ok) == IF ok THEN "flat" ELSE "err"
\* Mutant: a failed commit of the batch takes the mapping entries back.
mapping_rolled_back(mapping, split_shard_event) == mapping \ MappingEntries(split_shard_event)
\* The mapping after a failed commit of the batch: the error goes to the
\* caller, the entries set_state_shard_uid_mapping committed stay.
mapping_after_error(mapping, split_shard_event) == mapping
Commit ==
    /\ pc = "commit"
    /\ \E ok \in BOOLEAN :
        /\ IF ok
           THEN /\ dbChunkExtra' = PutAll(dbChunkExtra, batch.chunk_extras)
                /\ dbTransition' = PutAll(dbTransition, batch.transitions)
                /\ dbState' = dbState \cup trieUpdate
                /\ log' = Append(log, <<"commit", call.shard_uid.shard_id>>)
                /\ UNCHANGED dbMapping
           ELSE /\ dbMapping' = mapping_after_error(dbMapping, TheEvent)
                /\ UNCHANGED <<dbChunkExtra, dbTransition, dbState, log>>
        /\ IF AfterCommit(ok) = "err"
           THEN Return("Err:Io")
           ELSE /\ pc' = AfterCommit(ok)
                /\ batch' = EmptyBatch
                /\ trieUpdate' = {}
                /\ UNCHANGED <<result, call, parentExtra, idx, cur>>
    /\ UNCHANGED <<boundary, toolVars, memtries, flat, event, ncalls, flatTask, nrestarts, keep_going, flatStore>>

\* FlatStorageResharder::start_resharding returns at once and splits the flat
\* storage in a background task; a repeated call for the event is a no-op.
start_flat_resharding(task) == IF task = "none" THEN "running" ELSE task

\* Mutant: the event handed on has its children exchanged.
split_shard_event_exchanged(split_shard_event) ==
    [split_shard_event EXCEPT !.left_child_shard = split_shard_event.right_child_shard,
                              !.right_child_shard = split_shard_event.left_child_shard]
\* The event handed to the flat-storage resharder: split_shard's own parameter,
\* lent to set_state_shard_uid_mapping, cloned for the memtrie split, then moved.
split_shard_event_handed(split_shard_event) == split_shard_event

\* Mutant: the result of start_resharding is dropped.
start_resharding_result_dropped(ok) == "Ok"
\* What split_shard returns after the handoff: the error of start_resharding, else Ok.
start_resharding_result(ok) == IF ok THEN "Ok" ELSE "Err:FlatStorage"

\* flat_storage_resharder.start_resharding(SplitShard(split_shard_event), &next_shard_layout)?
FlatStart ==
    /\ pc = "flat"
    /\ \E ok \in BOOLEAN :
        IF ok
        THEN /\ flat' = Append(flat, [event |-> split_shard_event_handed(TheEvent), next_shard_layout |-> get_shard_layout_of_next_epoch(call.block, boundary)])
             /\ flatTask' = start_flat_resharding(flatTask)
             /\ log' = Append(log, <<"flat_start", call.shard_uid.shard_id>>)
             /\ Return(start_resharding_result(ok))
        ELSE /\ Return(start_resharding_result(ok))
             /\ UNCHANGED <<flat, log, flatTask>>
    /\ UNCHANGED <<boundary, toolVars, dbVars, memtries, event, ncalls, nrestarts, keep_going, flatStore>>

\* The background task of the flat-storage resharder completes.
FlatTaskFinish ==
    /\ flatTask = "running"
    /\ flatTask' = "done"
    /\ flatStore' = [copied |-> FlatBatches, ready |-> {flat[1].event.left_child_shard, flat[1].event.right_child_shard}]
    /\ UNCHANGED <<boundary, toolVars, dbVars, memtries, flat, pc, call, event, localVars, result, log, ncalls, nrestarts, keep_going>>

\* The memtries a node has after start-up: those of the shards of the current
\* layout as they were loaded at first, unfrozen; none for the children.
ReloadedMemtries(m, chunk_extras) ==
    [u \in AllShardUIds |->
        IF u.shard_id \in ParentShardIds
        THEN [loaded |-> m[u].loaded, frozen |-> FALSE, roots |-> IF m[u].loaded THEN {Get(chunk_extras, <<5, u>>).state_root} ELSE {}, nodes |-> {}]
        ELSE NotLoaded]

\* The node stops (a crash, or a shutdown at any point of a call) and starts
\* again: the store stays, everything in memory is rebuilt, the running call
\* and its batches are gone, and a background split that was running is not
\* running until it is resumed.
Restart ==
    /\ nrestarts < MaxRestarts
    /\ nrestarts' = nrestarts + 1
    /\ memtries' = ReloadedMemtries(memtries, dbChunkExtra)
    /\ flatTask' = IF flatTask = "running" THEN "none" ELSE flatTask
    /\ Return("None")
    /\ event' = {}
    /\ log' = <<>>
    /\ UNCHANGED <<boundary, toolVars, dbVars, flat, ncalls, keep_going, flatStore>>

\* After a restart the flat-storage resharder resumes the split it had started,
\* from its persisted progress.
FlatResume ==
    /\ nrestarts > 0
    /\ flatTask = "none"
    /\ Len(flat) > 0
    /\ flatTask' = "running"
    /\ UNCHANGED <<boundary, toolVars, dbVars, memtries, flat, pc, call, event, localVars, result, log, ncalls, nrestarts, keep_going, flatStore>>

\* The main process sets the manager's handle while the worker is at work.
StopHandle ==
    /\ flatTask = "running"
    /\ keep_going[resharding_handle]
    /\ keep_going' = [keep_going EXCEPT ![resharding_handle] = FALSE]
    /\ UNCHANGED <<boundary, toolVars, dbVars, memtries, flat, pc, call, event, localVars, result, log, ncalls, flatTask, nrestarts, flatStore>>

\* One turn of the worker's loop. At the loop boundary it looks at its handle
\* and, when told to stop, abandons the task with what it copied as its
\* checkpoint; else it copies one more batch into the children's flat storage,
\* and after the last batch makes the flat storage of both children ready.
FlatWorkerStep ==
    /\ flatTask = "running"
    /\ IF ~keep_going[controller_handle]
       THEN flatTask' = "cancelled" /\ UNCHANGED flatStore
       ELSE IF flatStore.copied < FlatBatches
       THEN flatStore' = [flatStore EXCEPT !.copied = @ + 1] /\ UNCHANGED flatTask
       ELSE /\ flatStore' = [flatStore EXCEPT !.ready = {flat[1].event.left_child_shard, flat[1].event.right_child_shard}]
            /\ flatTask' = "done"
    /\ UNCHANGED <<boundary, toolVars, dbVars, memtries, flat, pc, call, event, localVars, result, log, ncalls, nrestarts, keep_going>>

Next ==
    \/ Call
    \/ Gate
    \/ SetMapping
    \/ Freeze
    \/ GetChunkExtra
    \/ Retain
    \/ Save
    \/ Commit
    \/ FlatStart
    \/ FlatTaskFinish

Spec == Init /\ [][Next]_vars

\* The calls together with restarts of the node.
NextWithRestart ==
    \/ Next
    \/ Restart
    \/ FlatResume

SpecWithRestart == Init /\ [][NextWithRestart]_vars

\* The calls on a node that may lack the parent's ChunkExtra for the block.
SpecWithAnyStore == InitWith(BOOLEAN) /\ [][Next]_vars
\* The same calls on parents that may also hold a queue above a u64 and
\* stored counters below what the trie holds.
InitWithLargeQueues == InitManagerWith({TRUE}, ReceiptConfigs \cup {LargeQueue}, TRUE) /\ ToolsNotStarted
SpecWithLargeQueues == InitWithLargeQueues /\ [][Next]_vars

\* The calls with a worker that takes the flat-storage split turn by turn and
\* a main process that may set the handle.
NextWithCancel ==
    \/ Call
    \/ Gate
    \/ SetMapping
    \/ Freeze
    \/ GetChunkExtra
    \/ Retain
    \/ Save
    \/ Commit
    \/ FlatStart
    \/ FlatWorkerStep
    \/ StopHandle

SpecWithCancel == Init /\ [][NextWithCancel]_vars

\* ------------------------------------------------------------- the other programs
\* The resharding manager is not called in the behaviours of the other
\* programs: it stays as constructed, on a node with an empty parent trie.
managerVars == <<boundary, dbVars, memtries, flat, pc, call, event, localVars, result, log, ncalls, flatTask, nrestarts, keep_going, flatStore>>
ManagerNotCalled ==
    /\ InitManager({TRUE})
    /\ boundary = 1
    /\ ~memtries[ShardUId(SplitParentId)].loaded
    /\ \A p \in dbChunkExtra : p[2].state_root = EmptyRoot /\ p[2].congestion_info = {}

\* ---- max_receipt_size.rs: transactions sent through the test loop
\* Number of transactions a test sends.
MaxTxs == 3
max_receipt_size == 4194304
\* The transaction size limit is the runtime config's and is not in the file:
\* a deploy of 2_000_000 bytes is above it, the test contract is below it.
max_transaction_size == 1572864
RsContractSize == 500000
\* Size of a receipt with no arguments (borsh::object_length of the template);
\* a yield of 4_194_304 bytes of arguments gives a receipt of 4_194_503 bytes.
base_receipt_size == 199
\* What output_data_receivers, or the wrapping of a returned value in a data
\* receipt, adds to a receipt.
DataReceiverSize == 44
yield_resume_payload_limit == 1024
\* The transactions of the tests: method (or deploy_contract), its size
\* argument, and the size of the transaction itself.
Tx(method, arg, size) == [method |-> method, arg |-> arg, size |-> size]
Transactions ==
    {Tx("deploy_contract", 2000000, 2000000 + base_receipt_size),
     Tx("deploy_contract", RsContractSize, RsContractSize + base_receipt_size),
     Tx("generate_large_receipt", 3000000, 300),
     Tx("generate_large_receipt", 5000000, 300),
     Tx("max_receipt_size_promise_return_method1", max_receipt_size - base_receipt_size, 300),
     Tx("max_receipt_size_value_return_method", max_receipt_size, 300),
     Tx("yield_with_large_args", max_receipt_size, 300),
     Tx("resume_with_large_payload", 2000, 300),
     Tx("sum_n", 5, 300)}
RECURSIVE sum_n(_)
sum_n(n) == IF n = 0 THEN 0 ELSE (n - 1) + sum_n(n - 1)
Outcome(tx, receipt_size, status, value) == [tx |-> tx, receipt_size |-> receipt_size, status |-> status, value |-> value]
\* What the tests expect of the node for a transaction: the largest receipt its
\* execution makes (0: none), the final status, the value returned. A new
\* action receipt is validated when it is created; what is added to it later
\* (output_data_receivers after a promise_return) and a data receipt made for
\* a returned value are not validated again.
execute_tx(tx) ==
    IF tx.size > max_transaction_size THEN Outcome(tx, 0, "InvalidTx:TransactionSizeExceeded", 0)
    ELSE IF tx.method = "deploy_contract" THEN Outcome(tx, 0, "SuccessValue", 0)
    ELSE IF tx.method = "sum_n" THEN Outcome(tx, 0, "SuccessValue", sum_n(tx.arg))
    ELSE IF tx.method = "resume_with_large_payload"
    THEN IF tx.arg > yield_resume_payload_limit
         THEN Outcome(tx, 0, "Failure:FunctionCallError", 0)
         ELSE Outcome(tx, tx.arg + base_receipt_size, "SuccessValue", 0)
    ELSE IF tx.method \in {"generate_large_receipt", "yield_with_large_args"}
    THEN IF tx.arg + base_receipt_size > max_receipt_size
         THEN Outcome(tx, tx.arg + base_receipt_size, "Failure:ReceiptSizeExceeded", 0)
         ELSE Outcome(tx, tx.arg + base_receipt_size, "SuccessValue", 0)
    ELSE IF tx.method = "max_receipt_size_promise_return_method1"
    THEN IF tx.arg + base_receipt_size > max_receipt_size
         THEN Outcome(tx, tx.arg + base_receipt_size, "Failure:ReceiptSizeExceeded", 0)
         ELSE Outcome(tx, tx.arg + base_receipt_size + DataReceiverSize, "SuccessValue", 0)
    ELSE Outcome(tx, tx.arg + DataReceiverSize, "SuccessValue", 0)

InitTestLoop ==
    /\ ManagerNotCalled
    /\ test_loop = [outcomes |-> <<>>]
    /\ epoch_config_builder = NotStarted /\ run_cmd = NotStarted /\ genesis_builder = NotStarted
\* execute_tx / run_tx: the transaction is sent and the test waits for its outcome.
ExecuteTx ==
    /\ test_loop # NotStarted
    /\ Len(test_loop.outcomes) < MaxTxs
    /\ \E tx \in Transactions : test_loop' = [outcomes |-> Append(test_loop.outcomes, execute_tx(tx))]
    /\ UNCHANGED <<managerVars, epoch_config_builder, run_cmd, genesis_builder>>
\* env.shutdown_and_drain_remaining_events
Shutdown ==
    /\ test_loop # NotStarted
    /\ Len(test_loop.outcomes) > 0
    /\ test_loop.outcomes[Len(test_loop.outcomes)].status # "shutdown"
    /\ test_loop' = [outcomes |-> Append(test_loop.outcomes, Outcome(Tx("shutdown", 0, 0), 0, "shutdown", 0))]
    /\ UNCHANGED <<managerVars, epoch_config_builder, run_cmd, genesis_builder>>
NextTestLoop ==
    \/ ExecuteTx
    \/ Shutdown
SpecTestLoop == InitTestLoop /\ [][NextTestLoop]_vars

\* ---- test_genesis.rs: TestEpochConfigBuilder
\* Number of setter calls made on a builder before build.
MaxSetterCalls == 3
\* Balances are counted in NEAR.
ONE_NEAR == 1
EpochConfigBuilderFields ==
    {"epoch_length", "shard_layout", "validators_spec", "target_validator_mandates_per_shard",
     "block_producer_kickout_threshold", "chunk_producer_kickout_threshold",
     "chunk_validator_only_kickout_threshold", "minimum_stake_ratio",
     "minimum_validators_per_shard", "shuffle_shard_assignment_for_chunk_producers"}
\* Default::default(): every field None.
TestEpochConfigBuilder_new == [f \in EpochConfigBuilderFields |-> {}]
unwrap_or(option, default) == IF option = {} THEN default ELSE CHOOSE v \in option : TRUE
DesiredRoles(block_and_chunk_producers, chunk_validators_only) ==
    [kind |-> "DesiredRoles", block_and_chunk_producers |-> block_and_chunk_producers,
     chunk_validators_only |-> chunk_validators_only]
AccountInfo(account_id, amount) == [account_id |-> account_id, amount |-> amount]
\* ValidatorsSpec::raw
raw(validators, num_block_producer_seats, num_chunk_producer_seats, num_chunk_validator_only_seats) ==
    [kind |-> "Raw", validators |-> validators,
     num_block_producer_seats |-> num_block_producer_seats,
     num_chunk_producer_seats |-> num_chunk_producer_seats,
     num_chunk_validator_seats |->
        (IF num_block_producer_seats >= num_chunk_producer_seats
         THEN num_block_producer_seats ELSE num_chunk_producer_seats) + num_chunk_validator_only_seats]
derive_validator_setup(specs) ==
    IF specs.kind = "DesiredRoles"
    THEN LET np == Len(specs.block_and_chunk_producers)
             nv == Len(specs.chunk_validators_only)
         IN  [validators |->
                [i \in 1 .. np |-> AccountInfo(specs.block_and_chunk_producers[i], ONE_NEAR * (10000 - (i - 1)))]
                \o [i \in 1 .. nv |-> AccountInfo(specs.chunk_validators_only[i], ONE_NEAR * (10000 - (i - 1) - np))],
              num_block_producer_seats |-> np,
              num_chunk_producer_seats |-> np,
              num_chunk_validator_seats |-> np + nv]
    ELSE [validators |-> specs.validators,
          num_block_producer_seats |-> specs.num_block_producer_seats,
          num_chunk_producer_seats |-> specs.num_chunk_producer_seats,
          num_chunk_validator_seats |-> specs.num_chunk_validator_seats]
\* Genesis::test_epoch_config(num_block_producer_seats, shard_layout, epoch_length):
\* the three arguments go to their fields; the other fields get the values of
\* that function, which build overwrites or leaves as they are.
test_epoch_config(num_block_producer_seats, shard_layout, epoch_length) ==
    [epoch_length |-> epoch_length,
     shard_layout |-> shard_layout,
     num_block_producer_seats |-> num_block_producer_seats,
     num_chunk_producer_seats |-> "test_epoch_config",
     num_chunk_validator_seats |-> "test_epoch_config",
     target_validator_mandates_per_shard |-> "test_epoch_config",
     block_producer_kickout_threshold |-> "test_epoch_config",
     chunk_producer_kickout_threshold |-> "test_epoch_config",
     chunk_validator_only_kickout_threshold |-> "test_epoch_config",
     minimum_stake_ratio |-> "test_epoch_config",
     minimum_validators_per_shard |-> "test_epoch_config",
     shuffle_shard_assignment_for_chunk_producers |-> "test_epoch_config"]
\* A kickout threshold of the built config: set to 0, then overwritten when
\* the builder's field is Some.
kickout_threshold_zero(option) == 0
kickout_threshold(option) == unwrap_or(option, 0)
\* TestEpochConfigBuilder::build
build_epoch_config(self) ==
    LET epoch_length == unwrap_or(self["epoch_length"], 5)
        shard_layout == unwrap_or(self["shard_layout"], "single_shard")
        validators_spec == unwrap_or(self["validators_spec"], DesiredRoles(<<"validator0">>, <<>>))
        setup == derive_validator_setup(validators_spec)
        epoch_config == test_epoch_config(setup.num_block_producer_seats, shard_layout, epoch_length)
    IN  [epoch_config EXCEPT
            !.block_producer_kickout_threshold = kickout_threshold(self["block_producer_kickout_threshold"]),
            !.chunk_producer_kickout_threshold = kickout_threshold(self["chunk_producer_kickout_threshold"]),
            !.chunk_validator_only_kickout_threshold = kickout_threshold(self["chunk_validator_only_kickout_threshold"]),
            !.num_chunk_producer_seats = setup.num_chunk_producer_seats,
            !.num_chunk_validator_seats = setup.num_chunk_validator_seats,
            !.target_validator_mandates_per_shard = unwrap_or(self["target_validator_mandates_per_shard"], @),
            !.minimum_stake_ratio = unwrap_or(self["minimum_stake_ratio"], @),
            !.minimum_validators_per_shard = unwrap_or(self["minimum_validators_per_shard"], @),
            !.shuffle_shard_assignment_for_chunk_producers = unwrap_or(self["shuffle_shard_assignment_for_chunk_producers"], @)]
\* The setters: each writes Some(value) into the fields it names.
set_field(self, field, value) == [self EXCEPT ![field] = {value}]
kickouts_standard_80_percent(self) ==
    [self EXCEPT !["block_producer_kickout_threshold"] = {80},
                 !["chunk_producer_kickout_threshold"] = {80},
                 !["chunk_validator_only_kickout_threshold"] = {80}]
kickouts_for_chunk_validators_only(self) ==
    [self EXCEPT !["block_producer_kickout_threshold"] = {0},
                 !["chunk_producer_kickout_threshold"] = {0},
                 !["chunk_validator_only_kickout_threshold"] = {50}]
\* A call of a setter, and the builder it returns.
SetterCall(method, value) == [method |-> method, value |-> value]
apply_setter(self, c) ==
    IF c.method = "kickouts_standard_80_percent" THEN kickouts_standard_80_percent(self)
    ELSE IF c.method = "kickouts_for_chunk_validators_only" THEN kickouts_for_chunk_validators_only(self)
    ELSE set_field(self, c.method, c.value)
\* Values the tests give to the setters.
ValidatorsSpecs ==
    {DesiredRoles(<<"validator0", "validator1">>, <<"validator2">>),
     raw(<<AccountInfo("validator0", 50 * ONE_NEAR)>>, 2, 3, 1)}
SetterValues(field) ==
    CASE field = "epoch_length" -> {10, 20}
      [] field = "shard_layout" -> {"single_shard", "multi_shard"}
      [] field = "validators_spec" -> ValidatorsSpecs
      [] field = "target_validator_mandates_per_shard" -> {1, 68}
      [] field = "minimum_stake_ratio" -> {"1/6250", "1/100"}
      [] field = "minimum_validators_per_shard" -> {1, 2}
      [] field = "shuffle_shard_assignment_for_chunk_producers" -> BOOLEAN

InitEpochConfigBuilder ==
    /\ ManagerNotCalled
    /\ epoch_config_builder = [self |-> TestEpochConfigBuilder_new, calls |-> <<>>, epoch_config |-> {}]
    /\ test_loop = NotStarted /\ run_cmd = NotStarted /\ genesis_builder = NotStarted
BuilderCall(c) ==
    /\ epoch_config_builder # NotStarted
    /\ epoch_config_builder.epoch_config = {}
    /\ Len(epoch_config_builder.calls) < MaxSetterCalls
    /\ epoch_config_builder' = [epoch_config_builder EXCEPT
            !.self = apply_setter(@, c), !.calls = Append(@, c)]
    /\ UNCHANGED <<managerVars, test_loop, run_cmd, genesis_builder>>
SetEpochLength == \E v \in SetterValues("epoch_length") : BuilderCall(SetterCall("epoch_length", v))
SetShardLayout == \E v \in SetterValues("shard_layout") : BuilderCall(SetterCall("shard_layout", v))
SetValidatorsSpec == \E v \in SetterValues("validators_spec") : BuilderCall(SetterCall("validators_spec", v))
SetMinimumStakeRatio == \E v \in SetterValues("minimum_stake_ratio") : BuilderCall(SetterCall("minimum_stake_ratio", v))
SetMinimumValidatorsPerShard == \E v \in SetterValues("minimum_validators_per_shard") : BuilderCall(SetterCall("minimum_validators_per_shard", v))
SetTargetValidatorMandatesPerShard == \E v \in SetterValues("target_validator_mandates_per_shard") : BuilderCall(SetterCall("target_validator_mandates_per_shard", v))
SetShuffleShardAssignment == \E v \in SetterValues("shuffle_shard_assignment_for_chunk_producers") : BuilderCall(SetterCall("shuffle_shard_assignment_for_chunk_producers", v))
KickoutsStandard80Percent == BuilderCall(SetterCall("kickouts_standard_80_percent", 0))
KickoutsForChunkValidatorsOnly == BuilderCall(SetterCall("kickouts_for_chunk_validators_only", 0))
BuildEpochConfig ==
    /\ epoch_config_builder # NotStarted
    /\ epoch_config_builder.epoch_config = {}
    /\ epoch_config_builder' = [epoch_config_builder EXCEPT !.epoch_config = {build_epoch_config(epoch_config_builder.self)}]
    /\ UNCHANGED <<managerVars, test_loop, run_cmd, genesis_builder>>
NextEpochConfigBuilder ==
    \/ SetEpochLength
    \/ SetShardLayout
    \/ SetValidatorsSpec
    \/ SetMinimumStakeRatio
    \/ SetMinimumValidatorsPerShard
    \/ SetTargetValidatorMandatesPerShard
    \/ SetShuffleShardAssignment
    \/ KickoutsStandard80Percent
    \/ KickoutsForChunkValidatorsOnly
    \/ BuildEpochConfig
SpecEpochConfigBuilder == InitEpochConfigBuilder /\ [][NextEpochConfigBuilder]_vars

\* ---- mirror/src/cli.rs: RunCmd
\* What crate::secret::load finds at the path of --secret-file: a file it
\* cannot load, a config that says no secret is used, or a secret.
SecretFiles == {"unreadable", "no_secret", "secret_a", "secret_b"}
\* crate::secret::load: Err, Ok(None) or Ok(Some(secret)).
secret_load(secret_file) ==
    IF secret_file = "unreadable" THEN [ok |-> FALSE, secret |-> {}]
    ELSE IF secret_file = "no_secret" THEN [ok |-> TRUE, secret |-> {}]
    ELSE [ok |-> TRUE, secret |-> {secret_file}]
no_secret_conflict_ignored(secret, no_secret) == FALSE
no_secret_conflict(secret, no_secret) == secret # {} /\ no_secret
\* let secret = if let Some(secret_file) = &self.secret_file { .. } else { .. }
run_secret(self) ==
    IF self.secret_file # {}
    THEN LET loaded == secret_load(CHOOSE f \in self.secret_file : TRUE)
         IN  IF ~loaded.ok THEN [err |-> {"Failed to load secret"}, secret |-> {}]
             ELSE IF no_secret_conflict(loaded.secret, self.no_secret)
             THEN [err |-> {"--no-secret given with --secret-file indicating that a secret should be used"}, secret |-> {}]
             ELSE [err |-> {}, secret |-> loaded.secret]
    ELSE IF ~self.no_secret
         THEN [err |-> {"Please give either --secret-file or --no-secret"}, secret |-> {}]
         ELSE [err |-> {}, secret |-> {}]
\* The command as parsed from the command line: the options about the secret
\* and two of those handed on to crate::run.
RunCmds ==
    [secret_file : {{}} \cup {{f} : f \in SecretFiles},
     no_secret : BOOLEAN,
     online_source : BOOLEAN,
     stop_height : {{}, {100}}]
InitRunCmd ==
    /\ ManagerNotCalled
    /\ \E self \in RunCmds :
            run_cmd = [self |-> self, pc |-> "runtime", secret |-> {}, started |-> {}, result |-> {}]
    /\ test_loop = NotStarted /\ epoch_config_builder = NotStarted /\ genesis_builder = NotStarted
\* tokio::runtime::Runtime::new().context(..)?
NewRuntime ==
    /\ run_cmd # NotStarted
    /\ run_cmd.pc = "runtime"
    /\ \E ok \in BOOLEAN :
            run_cmd' = IF ok THEN [run_cmd EXCEPT !.pc = "secret"]
                       ELSE [run_cmd EXCEPT !.pc = "done", !.result = {"failed to start tokio runtime"}]
    /\ UNCHANGED <<managerVars, test_loop, epoch_config_builder, genesis_builder>>
LoadSecret ==
    /\ run_cmd # NotStarted
    /\ run_cmd.pc = "secret"
    /\ LET r == run_secret(run_cmd.self)
       IN  run_cmd' = IF r.err # {} THEN [run_cmd EXCEPT !.pc = "done", !.result = r.err]
                      ELSE [run_cmd EXCEPT !.pc = "system", !.secret = r.secret]
    /\ UNCHANGED <<managerVars, test_loop, epoch_config_builder, genesis_builder>>
\* new_actix_system, block_on, actix::spawn(crate::run(..))
StartMirror ==
    /\ run_cmd # NotStarted
    /\ run_cmd.pc = "system"
    /\ run_cmd' = [run_cmd EXCEPT !.pc = "running",
            !.started = {[secret |-> run_cmd.secret, online_source |-> run_cmd.self.online_source,
                          stop_height |-> run_cmd.self.stop_height]}]
    /\ UNCHANGED <<managerVars, test_loop, epoch_config_builder, genesis_builder>>
\* .await: crate::run returns, and its result is the command's.
MirrorReturns ==
    /\ run_cmd # NotStarted
    /\ run_cmd.pc = "running"
    /\ \E r \in {"Ok", "mirror error"} : run_cmd' = [run_cmd EXCEPT !.pc = "done", !.result = {r}]
    /\ UNCHANGED <<managerVars, test_loop, epoch_config_builder, genesis_builder>>
NextRunCmd ==
    \/ NewRuntime
    \/ LoadSecret
    \/ StartMirror
    \/ MirrorReturns
SpecRunCmd == InitRunCmd /\ [][NextRunCmd]_vars

\* ---- test_genesis.rs: TestGenesisBuilder
\* Number of setter calls made on a genesis builder before build.
MaxGenesisCalls == 3
GenesisAccountIds == {"validator0", "validator1", "near", "alice"}
UserAccount(account_id, balance, access_keys) == [account_id |-> account_id, balance |-> balance, access_keys |-> access_keys]
create_user_test_signer(account_id) == <<"public_key", account_id>>
\* Default::default(): the options None, no user accounts. (The fields that
\* only pass through to GenesisConfig are left out.)
TestGenesisBuilder_new == [validators_spec |-> {}, protocol_treasury_account |-> {}, user_accounts |-> <<>>]
add_user_account_simple(self, account_id, initial_balance) ==
    [self EXCEPT !.user_accounts = Append(@, UserAccount(account_id, initial_balance, <<create_user_test_signer(account_id)>>))]
RECURSIVE add_user_accounts_simple(_, _, _)
add_user_accounts_simple(self, accounts, initial_balance) ==
    IF accounts = <<>> THEN self
    ELSE add_user_accounts_simple(add_user_account_simple(self, Head(accounts), initial_balance), Tail(accounts), initial_balance)
\* The HashSet of the account ids is smaller than the list.
has_duplicate_user_accounts(user_accounts) ==
    Cardinality({user_accounts[i].account_id : i \in 1 .. Len(user_accounts)}) # Len(user_accounts)
\* Mutant: the treasury is added with one NEAR.
treasury_user_account_funded(protocol_treasury_account) == UserAccount(protocol_treasury_account, ONE_NEAR, <<>>)
\* The user account pushed for a treasury that is not among the user accounts.
treasury_user_account(protocol_treasury_account) == UserAccount(protocol_treasury_account, 0, <<>>)
with_treasury(user_accounts, protocol_treasury_account) ==
    IF \A i \in 1 .. Len(user_accounts) : user_accounts[i].account_id # protocol_treasury_account
    THEN Append(user_accounts, treasury_user_account(protocol_treasury_account))
    ELSE user_accounts
RECURSIVE SumOf(_, _)
SumOf(seq, field) == IF seq = <<>> THEN 0 ELSE Head(seq)[field] + SumOf(Tail(seq), field)
\* validator_stake after the loop of inserts: a later insert for an account
\* replaces the earlier one.
RECURSIVE validator_stake_of(_)
validator_stake_of(validators) ==
    IF validators = <<>> THEN <<>>
    ELSE LET v == validators[Len(validators)]
             before == validator_stake_of(SubSeq(validators, 1, Len(validators) - 1))
         IN  [a \in DOMAIN before \cup {v.account_id} |-> IF a = v.account_id THEN v.amount ELSE before[a]]
AccountRecord(account_id, amount, locked) == [kind |-> "Account", account_id |-> account_id, amount |-> amount, locked |-> locked]
AccessKeyRecord(account_id, public_key) == [kind |-> "AccessKey", account_id |-> account_id, public_key |-> public_key]
\* The records of the user accounts: the Account, locked with what
\* validator_stake.remove gives or 0, then its access keys.
RECURSIVE user_records(_, _)
user_records(user_accounts, validator_stake) ==
    IF user_accounts = <<>> THEN <<>>
    ELSE LET u == Head(user_accounts)
             locked == IF u.account_id \in DOMAIN validator_stake THEN validator_stake[u.account_id] ELSE 0
         IN  <<AccountRecord(u.account_id, u.balance, locked)>>
             \o [i \in 1 .. Len(u.access_keys) |-> AccessKeyRecord(u.account_id, u.access_keys[i])]
             \o user_records(Tail(user_accounts), validator_stake)
\* The orders in which a HashMap may hand out its entries.
IterationOrders(S) == {o \in [1 .. Cardinality(S) -> S] : \A i, j \in 1 .. Cardinality(S) : o[i] = o[j] => i = j}
\* TestGenesisBuilder::build, for one iteration order of what is left in
\* validator_stake; none when it panics.
build_genesis(self, order) ==
    IF has_duplicate_user_accounts(self.user_accounts) THEN {}
    ELSE LET protocol_treasury_account == unwrap_or(self.protocol_treasury_account, "near")
             user_accounts == with_treasury(self.user_accounts, protocol_treasury_account)
             setup == derive_validator_setup(unwrap_or(self.validators_spec, DesiredRoles(<<"validator0">>, <<>>)))
             validator_stake == validator_stake_of(setup.validators)
         IN  {[total_supply |-> SumOf(setup.validators, "amount") + SumOf(user_accounts, "balance"),
               protocol_treasury_account |-> protocol_treasury_account,
               validators |-> setup.validators,
               records |-> user_records(user_accounts, validator_stake)
                           \o [i \in 1 .. Len(order) |-> AccountRecord(order[i], 0, validator_stake[order[i]])]]}
\* The validator_stake entries left after the user accounts took theirs.
remaining_validator_stake(self) ==
    LET setup == derive_validator_setup(unwrap_or(self.validators_spec, DesiredRoles(<<"validator0">>, <<>>)))
        users == with_treasury(self.user_accounts, unwrap_or(self.protocol_treasury_account, "near"))
    IN  DOMAIN validator_stake_of(setup.validators) \ {users[i].account_id : i \in 1 .. Len(users)}
\* Values the tests give to the setters.
GenesisValidatorsSpecs ==
    {DesiredRoles(<<"validator0", "validator1">>, <<>>),
     DesiredRoles(<<"validator0">>, <<"validator1">>),
     DesiredRoles(<<"validator0">>, <<"validator0">>),
     DesiredRoles(<<"near">>, <<"alice">>),
     raw(<<AccountInfo("validator0", 50 * ONE_NEAR), AccountInfo("alice", 30 * ONE_NEAR)>>, 2, 2, 0)}
InitialBalances == {0, 7 * ONE_NEAR}

InitGenesisBuilder ==
    /\ ManagerNotCalled
    /\ genesis_builder = [self |-> TestGenesisBuilder_new, calls |-> 0, result |-> "None", genesis |-> {}]
    /\ test_loop = NotStarted /\ epoch_config_builder = NotStarted /\ run_cmd = NotStarted
GenesisBuilderCall(self) ==
    /\ genesis_builder # NotStarted
    /\ genesis_builder.result = "None"
    /\ genesis_builder.calls < MaxGenesisCalls
    /\ genesis_builder' = [genesis_builder EXCEPT !.self = self, !.calls = @ + 1]
    /\ UNCHANGED <<managerVars, test_loop, epoch_config_builder, run_cmd>>
GenesisValidatorsSpec ==
    \E v \in GenesisValidatorsSpecs : GenesisBuilderCall([genesis_builder.self EXCEPT !.validators_spec = {v}])
ProtocolTreasuryAccount ==
    \E a \in {"near", "alice", "validator0"} : GenesisBuilderCall([genesis_builder.self EXCEPT !.protocol_treasury_account = {a}])
AddUserAccountSimple ==
    \E a \in GenesisAccountIds, b \in InitialBalances : GenesisBuilderCall(add_user_account_simple(genesis_builder.self, a, b))
AddUserAccountsSimple ==
    \E accounts \in {<<"alice", "near">>, <<"validator0", "alice">>, <<"alice", "alice">>}, b \in InitialBalances :
        GenesisBuilderCall(add_user_accounts_simple(genesis_builder.self, accounts, b))
BuildGenesis ==
    /\ genesis_builder # NotStarted
    /\ genesis_builder.result = "None"
    /\ \E order \in IterationOrders(remaining_validator_stake(genesis_builder.self)) :
        LET built == build_genesis(genesis_builder.self, order)
        IN  genesis_builder' = [genesis_builder EXCEPT !.genesis = built, !.result = IF built = {} THEN "Panic" ELSE "Ok"]
    /\ UNCHANGED <<managerVars, test_loop, epoch_config_builder, run_cmd>>
NextGenesisBuilder ==
    \/ GenesisValidatorsSpec
    \/ ProtocolTreasuryAccount
    \/ AddUserAccountSimple
    \/ AddUserAccountsSimple
    \/ BuildGenesis
SpecGenesisBuilder == InitGenesisBuilder /\ [][NextGenesisBuilder]_vars

\* ------------------------------------------------------------- properties
\* The one split of the chain: block 5 is the last block before the split layout.
ChainSplit == CHOOSE ev \in from_shard_layout(SplitLayout(boundary), 5) : TRUE
ParentRootOf(ev) == Get(dbChunkExtra, <<ev.block_hash, ev.parent_shard>>).state_root
ChildUIds(ev) == {ev.left_child_shard, ev.right_child_shard}

MappingVisible(ev) == \A c \in ChildUIds(ev) : <<c, ev.parent_shard>> \in dbMapping
MappingAbsent(ev) == \A c \in ChildUIds(ev) : ~Has(dbMapping, c)
ChunkExtrasVisible(ev) == \A c \in ChildUIds(ev) : Has(dbChunkExtra, <<ev.block_hash, c>>)
ChunkExtrasAbsent(ev) == \A c \in ChildUIds(ev) : ~Has(dbChunkExtra, <<ev.block_hash, c>>)
WitnessesVisible(ev) == \A c \in ChildUIds(ev) : Has(dbTransition, <<ev.block_hash, c.shard_id>>)
WitnessesAbsent(ev) == \A c \in ChildUIds(ev) : ~Has(dbTransition, <<ev.block_hash, c.shard_id>>)
\* The nodes the two walks of the split create.
SplitInsertions(ev) ==
    retain_split_shard(ParentRootOf(ev), ev.boundary_account, "Left").insertions
        \cup retain_split_shard(ParentRootOf(ev), ev.boundary_account, "Right").insertions
NodesVisible(ev) == \A n \in SplitInsertions(ev) : \E p \in dbState : p[2] = n
NodesAbsent(ev) == \A p \in dbState : p[2] \in NodesOf(ParentRootOf(ev))

\* C1 (as claimed): atomicity of the split. In every state of the persistent
\* store, the two mapping entries, both child ChunkExtras, both witnesses and
\* the inserted nodes of the split are either all visible or all absent.
C1_AtomicSplit ==
    \/ MappingVisible(ChainSplit) /\ ChunkExtrasVisible(ChainSplit) /\ WitnessesVisible(ChainSplit) /\ NodesVisible(ChainSplit)
    \/ MappingAbsent(ChainSplit) /\ ChunkExtrasAbsent(ChainSplit) /\ WitnessesAbsent(ChainSplit) /\ NodesAbsent(ChainSplit)

\* No effect of a step on the store, the memtries and the flat-storage resharder.
NoEffect == UNCHANGED <<dbMapping, dbChunkExtra, dbTransition, dbState, memtries, flat>>
ReturnsOkAtOnce == pc' = "idle" /\ result' = "Ok"
\* The call is at its gate and the step is the call's own: not a restart of the
\* node, not a step of the flat-storage resharder's background task.
AtGate == pc = "gate" /\ nrestarts' = nrestarts /\ flatTask' = flatTask

\* C2: gate on the epoch boundary. A call for a block that is not the last of
\* its epoch, or whose next epoch has the same shard layout, returns Ok and
\* writes nothing, freezes nothing, commits nothing and hands nothing off.
C2_GateEpochBoundary ==
    [][(AtGate /\ (~is_next_block_epoch_start(call.block) \/ get_shard_layout_of_epoch(call.block) = get_shard_layout_of_next_epoch(call.block, boundary)))
        => (ReturnsOkAtOnce /\ NoEffect /\ Len(log') = 1)]_vars
C2_Witness ==
    /\ pc = "idle" /\ result = "Ok" /\ Len(log) = 1 /\ log[1][1] = "same_layout"
    /\ dbMapping = {} /\ flat = <<>>

\* C3: gate on the layout variant and the event. When the epoch-boundary gate
\* passes but the next layout is not V2, or no split event is derived from it,
\* the call returns Ok without write, freeze or handoff.
C3_GateVariantAndEvent ==
    [][(/\ AtGate
        /\ is_next_block_epoch_start(call.block)
        /\ get_shard_layout_of_epoch(call.block) # get_shard_layout_of_next_epoch(call.block, boundary)
        /\ \/ get_shard_layout_of_next_epoch(call.block, boundary).variant # "V2"
           \/ from_shard_layout(get_shard_layout_of_next_epoch(call.block, boundary), call.block) = {})
        => (ReturnsOkAtOnce /\ NoEffect /\ Len(log') = 1)]_vars
C3_Witness ==
    /\ pc = "idle" /\ result = "Ok" /\ Len(log) = 1 /\ log[1][1] = "not_v2"
    /\ dbMapping = {} /\ flat = <<>>

\* C4: gate on the parent shard. When the derived event's parent is not the
\* shard_uid of the call, the call returns Ok without effect: no mapping entry,
\* no freeze, no commit, no flat-storage start.
C4_GateParentShard ==
    [][(/\ AtGate
        /\ is_next_block_epoch_start(call.block)
        /\ get_shard_layout_of_next_epoch(call.block, boundary).variant = "V2"
        /\ \E ev \in from_shard_layout(get_shard_layout_of_next_epoch(call.block, boundary), call.block) : ev.parent_shard # call.shard_uid)
        => (ReturnsOkAtOnce /\ NoEffect /\ Len(log') = 1)]_vars
C4_Witness ==
    /\ pc = "idle" /\ result = "Ok" /\ Len(log) = 1 /\ log[1] = <<"parent_mismatch", 1>>
    /\ dbMapping = {} /\ flat = <<>>

\* Everything the split of ev makes durable.
Durable(ev) == MappingVisible(ev) /\ ChunkExtrasVisible(ev) /\ WitnessesVisible(ev) /\ NodesVisible(ev)
LogHas(step) == \E i \in 1 .. Len(log) : log[i][1] = step

\* C5: handoff ordering. The flat-storage resharder is started for a split only
\* when the mapping entries and the split's batch are durable, and in a call it
\* is started only after set_mapping and a successful commit of that call.
C5_HandoffAfterCommit ==
    /\ \A i \in 1 .. Len(flat) : Durable(flat[i].event)
    /\ \A i \in 1 .. Len(log) : log[i][1] = "flat_start" =>
          \E j \in 1 .. (i - 1) : log[j][1] = "commit" /\ \E k \in 1 .. (j - 1) : log[k][1] = "set_mapping"
    /\ (pc = "idle" /\ result \notin {"Ok", "None"}) => ~LogHas("flat_start")
C5_Witness == pc = "idle" /\ result = "Ok" /\ Len(flat) = 1 /\ LogHas("flat_start")

ChildProducts(ev, c, mode) ==
    /\ Cardinality({p \in dbChunkExtra : p[1] = <<ev.block_hash, c>>}) = 1
    /\ Cardinality({p \in dbTransition : p[1] = <<ev.block_hash, c.shard_id>>}) = 1
    /\ Get(dbTransition, <<ev.block_hash, c.shard_id>>).partial_state = retain_split_shard(ParentRootOf(ev), ev.boundary_account, mode).recorded
    /\ Get(dbTransition, <<ev.block_hash, c.shard_id>>).contract_accesses = {}
\* C6: products of a successful split. After a call that passed the gate
\* returned Ok, each child has exactly one ChunkExtra under (block_hash, child)
\* and exactly one StateTransitionData with the child's recorded PartialState
\* and no contract accesses, and the mapping holds exactly left -> parent and
\* right -> parent.
C6_SplitProducts ==
    (pc = "idle" /\ result = "Ok" /\ event # {}) =>
        /\ ChildProducts(TheEvent, TheEvent.left_child_shard, "Left")
        /\ ChildProducts(TheEvent, TheEvent.right_child_shard, "Right")
        /\ dbMapping = {<<TheEvent.left_child_shard, TheEvent.parent_shard>>, <<TheEvent.right_child_shard, TheEvent.parent_shard>>}
        /\ Cardinality(dbTransition) = 2
C6_Witness ==
    /\ pc = "idle" /\ result = "Ok" /\ event # {}
    /\ Get(dbTransition, <<TheEvent.block_hash, TheEvent.right_child_shard.shard_id>>).partial_state # {}

\* Keys of the parent and of the two children of the committed split.
ChildRootOf(ev, c) == Get(dbChunkExtra, <<ev.block_hash, c>>).state_root
ParentKeys == KeysOf(ParentRootOf(ChainSplit))
LeftKeys == KeysOf(ChildRootOf(ChainSplit, ChainSplit.left_child_shard))
RightKeys == KeysOf(ChildRootOf(ChainSplit, ChainSplit.right_child_shard))
AccountsIn(S) == {x[1] : x \in S}

C8_SplitBoundary ==
    ChunkExtrasVisible(ChainSplit) =>
        /\ LeftKeys = {x \in ParentKeys : x[1] < ChainSplit.boundary_account}
        /\ RightKeys = {x \in ParentKeys : x[1] >= ChainSplit.boundary_account}
C8_Witness ==
    /\ ChunkExtrasVisible(ChainSplit)
    /\ \E x \in RightKeys : x[1] = ChainSplit.boundary_account
    /\ LeftKeys # {}

\* C9: physical-key stability. Every node of DBCol::State, committed or still
\* in the split's store update, is under the parent's ShardUId prefix, never
\* under a child's.
C9_ParentPrefixOnly ==
    \A p \in dbState \cup trieUpdate : p[1] = ChainSplit.parent_shard /\ p[1] \notin ChildUIds(ChainSplit)
C9_Witness ==
    /\ LogHas("commit")
    /\ \E p \in dbState : p[2] \in retain_split_shard(ParentRootOf(ChainSplit), boundary, "Right").insertions /\ p[2] \notin NodesOf(ParentRootOf(ChainSplit))
    /\ \E p \in dbState : p[2] \in retain_split_shard(ParentRootOf(ChainSplit), boundary, "Left").insertions /\ p[2] \notin NodesOf(ParentRootOf(ChainSplit))

ChildSteps == {"retain", "install_root", "save_chunk_extra", "save_state_transition_data", "apply_insertions"}
StepsOf(c) == {i \in 1 .. Len(log) : log[i][1] \in ChildSteps /\ log[i][2] = c.shard_id}
Complete(c) == \A st \in ChildSteps : \E i \in StepsOf(c) : log[i][1] = st
\* C10: left before right. In one attempt every step for the left child comes
\* before the first step for the right child, the left child is complete when
\* the right one starts, and the commit comes only after both are complete.
C10_LeftBeforeRight ==
    event # {} =>
        /\ \A i \in StepsOf(TheEvent.left_child_shard) : \A j \in StepsOf(TheEvent.right_child_shard) : i < j
        /\ StepsOf(TheEvent.right_child_shard) # {} => Complete(TheEvent.left_child_shard)
        /\ LogHas("commit") => (Complete(TheEvent.left_child_shard) /\ Complete(TheEvent.right_child_shard))
C10_Witness == event # {} /\ LogHas("commit") /\ Complete(TheEvent.left_child_shard) /\ Complete(TheEvent.right_child_shard)

\* The ChunkExtras of the split's children, committed or saved in the batch.
ParentExtraOf(ev) == Get(dbChunkExtra, <<ev.block_hash, ev.parent_shard>>)
ModeOf(ev, c) == IF c = ev.left_child_shard THEN "Left" ELSE "Right"
ChildExtrasOf(ev) == {p \in dbChunkExtra \cup batch.chunk_extras : p[1][1] = ev.block_hash /\ p[1][2] \in ChildUIds(ev)}
NewRootOf(ev, c) == retain_split_shard(ParentRootOf(ev), ev.boundary_account, ModeOf(ev, c)).new_root
\* The panic of an assertion of get_child_congestion_info: the last step logged
\* is the installation of a child's root.
PanicInChunkExtra == pc = "crashed" /\ Len(log) > 0 /\ log[Len(log)][1] = "install_root"
PanicShard == log[Len(log)][2]

\* C11: child ChunkExtra inheritance. Each child's ChunkExtra equals the
\* parent's for the block in every field except state_root, which is the
\* child's new root, and congestion_info, which is replaced only when the
\* parent's ChunkExtra has one; when it has none the child's ChunkExtra differs
\* from the parent's in state_root only, and no recomputation (and so none of
\* its assertions) takes place.
C11_ChunkExtraInheritance ==
    /\ \A p \in ChildExtrasOf(ChainSplit) :
          LET parent == ParentExtraOf(ChainSplit)
              child == p[2]
          IN  /\ DOMAIN child = DOMAIN parent
              /\ child.state_root = NewRootOf(ChainSplit, p[1][2])
              /\ child.gas_used = parent.gas_used
              /\ (parent.congestion_info = {}) = (child.congestion_info = {})
              /\ parent.congestion_info = {} => child = [parent EXCEPT !.state_root = child.state_root]
              /\ Cardinality(child.congestion_info) <= 1
    /\ PanicInChunkExtra => ParentExtraOf(ChainSplit).congestion_info # {}
C11_Witness ==
    /\ ChunkExtrasVisible(ChainSplit)
    /\ ParentExtraOf(ChainSplit).congestion_info = {}
    /\ SumBuffered(TrieOf(ParentRootOf(ChainSplit)).rcpt) > 0
    /\ TrieOf(ParentRootOf(ChainSplit)).rcpt.grouped = {}
    /\ ChildRootOf(ChainSplit, ChainSplit.right_child_shard) # ParentRootOf(ChainSplit)

TheInfo(chunk_extra) == CHOOSE x \in chunk_extra.congestion_info : TRUE
BodyOf(congestion_info) == [congestion_info EXCEPT !.allowed_shard = 0]
LeftExtras(ev) == {p \in ChildExtrasOf(ev) : p[1][2] = ev.left_child_shard /\ p[2].congestion_info # {}}
RightExtras(ev) == {p \in ChildExtrasOf(ev) : p[1][2] = ev.right_child_shard /\ p[2].congestion_info # {}}

RemainingOf(ev) == RemoveBuffered(TheInfo(ParentExtraOf(ev)), ParentRootOf(ev), get_shard_layout_of_epoch(ev.block_hash).shard_ids)
SumQueuesGas(root, shard_ids) ==
    LET q0 == ReceiptGroupsQueue_load(root, shard_ids[1])
        q1 == ReceiptGroupsQueue_load(root, shard_ids[2])
    IN  (IF q0 = {} THEN 0 ELSE (CHOOSE g \in q0 : TRUE).total_gas) + (IF q1 = {} THEN 0 ELSE (CHOOSE g \in q1 : TRUE).total_gas)
GasConserved(ev) ==
    TheInfo(ParentExtraOf(ev)).buffered_receipts_gas - SumQueuesGas(ParentRootOf(ev), get_shard_layout_of_epoch(ev.block_hash).shard_ids) = 0
RightStepReached(ev) == \E i \in 1 .. Len(log) : log[i] = <<"install_root", ev.right_child_shard.shard_id>>

\* C13: congestion conservation for the right child (P6). A right child's
\* ChunkExtra with congestion info is only ever saved when the parent's
\* buffered_receipts_gas minus the total_gas of the parent trie's queue of every
\* shard of the pre-split layout is 0. When it is not, the attempt never saves
\* the right child's ChunkExtra, never commits, and no child ChunkExtra of the
\* split is in the store.
C13_CongestionConservation ==
    /\ RightExtras(ChainSplit) # {} => (GasConserved(ChainSplit) /\ RemainingOf(ChainSplit).kind = "Ok" /\ RemainingOf(ChainSplit).value.buffered_receipts_gas = 0)
    /\ (ParentExtraOf(ChainSplit).congestion_info # {} /\ ~GasConserved(ChainSplit)) =>
          /\ ChunkExtrasAbsent(ChainSplit)
          /\ ~LogHas("commit")
          /\ flat = <<>>
          /\ (event # {} /\ RightStepReached(TheEvent)) => (pc \in {"save", "crashed"} \/ (pc = "idle" /\ result = "Err:Io"))
C13_Witness ==
    /\ PanicInChunkExtra /\ PanicShard = RightChildId
    /\ ~GasConserved(ChainSplit)
    /\ TheInfo(ParentExtraOf(ChainSplit)).receipt_bytes = bootstrap_congestion_info(ParentRootOf(ChainSplit), SplitParentId).receipt_bytes
    /\ batch.chunk_extras # {}
    /\ ChunkExtrasAbsent(ChainSplit)

\* The two computations for the right child of the split: the bootstrap from
\* the child trie, and the subtraction from the parent's info.
BootstrappedOf(ev) == bootstrap_congestion_info(NewRootOf(ev, ev.right_child_shard), ev.right_child_shard.shard_id)
ComputationsAgree(ev) == RemainingOf(ev).kind = "Ok" /\ BodyOf(RemainingOf(ev).value) = BodyOf(BootstrappedOf(ev))

\* C14: right-child cross-check. The congestion info saved for the right child
\* is the one bootstrap_congestion_info gives on the child trie, and it is
\* saved only if it agrees with the subtraction-based computation on every
\* field except allowed_shard; on a disagreement the attempt saves no right
\* child ChunkExtra and never reaches the batch commit.
C14_RightCrossCheck ==
    /\ \A p \in RightExtras(ChainSplit) :
          /\ BodyOf(TheInfo(p[2])) = BodyOf(bootstrap_congestion_info(p[2].state_root, ChainSplit.right_child_shard.shard_id))
          /\ ComputationsAgree(ChainSplit)
    /\ (ParentExtraOf(ChainSplit).congestion_info # {} /\ ~ComputationsAgree(ChainSplit)) =>
          /\ RightExtras(ChainSplit) = {}
          /\ ChunkExtrasAbsent(ChainSplit)
          /\ ~LogHas("commit")
          /\ flat = <<>>
C14_Witness ==
    /\ PanicInChunkExtra /\ PanicShard = RightChildId
    /\ GasConserved(ChainSplit)
    /\ RemainingOf(ChainSplit).kind = "Ok" /\ RemainingOf(ChainSplit).value.buffered_receipts_gas = 0
    /\ ~ComputationsAgree(ChainSplit)
    /\ SumBuffered(TrieOf(ParentRootOf(ChainSplit)).rcpt) > 0

\* The shard ids of the next epoch's layout, and a child's index among them.
NextShardIds(ev) == get_shard_layout_of_next_epoch(ev.block_hash, ev.boundary_account).shard_ids
IndexInNextLayout(ev, c) ==
    LET all_shards == get_shard_layout_of_next_epoch(ev.block_hash, ev.boundary_account).shard_ids
    IN  (CHOOSE i \in 1 .. Len(all_shards) : all_shards[i] = c.shard_id) - 1

\* C15: allowed_shard finalization. For the left and the right child alike,
\* whenever the ChunkExtra has a congestion info, its allowed_shard is the one
\* finalize_allowed_shard gives for the child's own shard, all shard ids of the
\* next epoch's layout and the seed "index of the child in the next layout",
\* whatever the block's height and the parent's allowed_shard are.
C15_AllowedShardFinalized ==
    \A p \in LeftExtras(ChainSplit) \cup RightExtras(ChainSplit) :
        TheInfo(p[2]).allowed_shard =
            finalize_allowed_shard(BootstrappedOf(ChainSplit), p[1][2].shard_id, NextShardIds(ChainSplit), IndexInNextLayout(ChainSplit, p[1][2])).allowed_shard
C15_Witness ==
    /\ ChunkExtrasVisible(ChainSplit)
    /\ LeftExtras(ChainSplit) # {} /\ RightExtras(ChainSplit) # {}
    /\ TheInfo(ParentExtraOf(ChainSplit)).allowed_shard = 0
    /\ \A p \in LeftExtras(ChainSplit) : TheInfo(p[2]).allowed_shard = LeftChildId
    /\ \A p \in RightExtras(ChainSplit) : TheInfo(p[2]).allowed_shard = RightChildId

\* Nothing of the split of ev is in any column, and nothing was handed off.
NoWriteOf(ev) == MappingAbsent(ev) /\ ChunkExtrasAbsent(ev) /\ WitnessesAbsent(ev) /\ NodesAbsent(ev) /\ flat = <<>>
MemtrieErrors == {"Err:MemtrieNotLoaded", "Err:Storage"}

\* C16 (as claimed): memtrie missing. A call that passes the gate while the
\* parent memtrie is not loaded fails with the memtrie error, and no write
\* reaches any column: no mapping entry, no ChunkExtra, no StateTransitionData,
\* no trie node, and the flat-storage resharder is not started.
C16_MemtrieMissingNoWrite ==
    (pc = "idle" /\ event # {} /\ ~memtries[TheEvent.parent_shard].loaded /\ LogHas("freeze")) =>
        /\ result \in MemtrieErrors \cup {"Err:DBNotFound"}
        /\ result \in MemtrieErrors => NoWriteOf(TheEvent)

\* The running (or last) call passed the gate for the chain's split after an
\* earlier call committed it and returned Ok: the split is in the store and
\* handed off, and the log of the call has no commit of its own.
CallAfterCommit == event # {} /\ ChunkExtrasVisible(ChainSplit) /\ WitnessesVisible(ChainSplit) /\ flat # <<>> /\ ~LogHas("commit")
PanicInFreeze == pc = "crashed" /\ Len(log) > 0 /\ log[Len(log)][1] = "freeze"

\* C17 (as claimed): idempotence (P7). A second call for the same
\* (block, shard_uid) after a first call committed is a no-op: it does not
\* panic, it returns Ok unless an I/O step fails, and the mappings, child
\* ChunkExtras, witnesses and trie nodes of the first call stay as they are.
C17_SecondCallNoOp ==
    CallAfterCommit =>
        /\ pc # "crashed"
        /\ (pc = "idle" /\ result # "Err:Io") => result = "Ok"
        /\ Durable(ChainSplit) /\ Cardinality(dbTransition) = 2 /\ dbMapping = MappingEntries(ChainSplit)

\* The last call passed the gate and returned an error before its commit.
FailedBeforeCommit == pc = "idle" /\ event # {} /\ result \notin {"Ok", "None"} /\ ~LogHas("commit")
MemtriesUntouched ==
    /\ ~memtries[ChainSplit.parent_shard].frozen
    /\ \A c \in ChildUIds(ChainSplit) : memtries[c] = NotLoaded

\* C18 (as claimed): safe retry. An attempt that fails before the batch commit
\* leaves nothing behind, in the store or in the memtries; and a later call for
\* the same (block, shard_uid) does not panic on what an earlier uncommitted
\* attempt left, so that it can succeed as a first attempt would.
C18_SafeRetry ==
    /\ FailedBeforeCommit => (NoWriteOf(ChainSplit) /\ MemtriesUntouched)
    /\ ChunkExtrasAbsent(ChainSplit) => ~PanicInFreeze

\* The state of the split of (epoch, parent shard): what is committed, and where
\* the flat-storage resharder's background split stands.
BatchCommitted(ev) == MappingVisible(ev) /\ ChunkExtrasVisible(ev) /\ WitnessesVisible(ev)
Phase ==
    IF flatTask = "done" THEN "Done"
    ELSE IF flatTask = "running" THEN "FlatStorageInProgress"
    ELSE IF BatchCommitted(ChainSplit) THEN "Committed"
    ELSE "Idle"
ForwardMoves == {<<"Idle", "Committed">>, <<"Committed", "FlatStorageInProgress">>, <<"FlatStorageInProgress", "Done">>}

\* C19: split state machine. The split moves only along Idle -> Committed ->
\* FlatStorageInProgress -> Done; Done is left by no step; the only backward
\* move is FlatStorageInProgress -> Committed, made by a restart of the node;
\* and FlatStorageInProgress is never entered from Idle.
C19_SplitStateMachine ==
    [][\/ Phase' = Phase
       \/ <<Phase, Phase'>> \in ForwardMoves
       \/ (Phase = "FlatStorageInProgress" /\ Phase' = "Committed" /\ nrestarts' = nrestarts + 1)]_vars
C19_Witness ==
    /\ Phase = "Done"
    /\ nrestarts = 1 /\ ncalls = 1 /\ Len(flat) = 1
    /\ pc = "idle" /\ result = "None"

FirstStep(step) == CHOOSE i \in 1 .. Len(log) : log[i][1] = step /\ \A j \in 1 .. (i - 1) : log[j][1] # step
Published(c) == memtries[c].loaded /\ ParentRootOf(ChainSplit) \in memtries[c].roots
\* A step of a retention walk: it walks, and installs the root it made.
WalkStep == pc = "retain" /\ pc' = "save"

\* C20: freeze protocol. The parent memtrie is frozen and both child memtries
\* are published (they share the parent's roots) before either retention walk
\* starts; from the freeze on no step changes the parent memtrie; a walk only
\* adds roots and nodes, to the memtrie of the child it is for, and leaves the
\* other child's alone.
C20_FreezeProtocol ==
    /\ [](LogHas("retain") =>
            /\ LogHas("freeze") /\ FirstStep("freeze") < FirstStep("retain")
            /\ memtries[ChainSplit.parent_shard].frozen
            /\ \A c \in ChildUIds(ChainSplit) : Published(c))
    /\ [][/\ memtries[ChainSplit.parent_shard].frozen => memtries'[ChainSplit.parent_shard] = memtries[ChainSplit.parent_shard]
          /\ WalkStep =>
                /\ \A u \in AllShardUIds \ {TheChild.uid} : memtries'[u] = memtries[u]
                /\ memtries[TheChild.uid].roots \subseteq memtries'[TheChild.uid].roots
                /\ memtries[TheChild.uid].nodes \subseteq memtries'[TheChild.uid].nodes
                /\ memtries'[TheChild.uid].loaded /\ ~memtries'[TheChild.uid].frozen]_vars
C20_Witness ==
    /\ pc = "commit"
    /\ memtries[ChainSplit.parent_shard].frozen
    /\ memtries[ChainSplit.parent_shard].roots = {ParentRootOf(ChainSplit)}
    /\ memtries[ChainSplit.left_child_shard].nodes # {}
    /\ memtries[ChainSplit.right_child_shard].nodes # {}
    /\ memtries[ChainSplit.left_child_shard].nodes # memtries[ChainSplit.right_child_shard].nodes

\* What a retention walk of the split reads, and the witnesses saved for a
\* child (in the batch or in the store).
WalkReads(ev, mode) == retain_split_shard(ParentRootOf(ev), ev.boundary_account, mode).recorded
OtherMode(mode) == IF mode = "Left" THEN "Right" ELSE "Left"
SavedWitnesses(ev, c) ==
    {p[2].partial_state : p \in {q \in dbTransition \cup batch.transitions : q[1] = <<ev.block_hash, c.shard_id>>}}

\* C21: independent witnesses. The PartialState saved for a child holds only
\* nodes read by that child's own retention walk: a node read only by the
\* other child's walk is in none of the child's witnesses.
C21_IndependentWitnesses ==
    \A c \in ChildUIds(ChainSplit) : \A w \in SavedWitnesses(ChainSplit, c) :
        /\ w \subseteq WalkReads(ChainSplit, ModeOf(ChainSplit, c))
        /\ w \cap (WalkReads(ChainSplit, OtherMode(ModeOf(ChainSplit, c))) \ WalkReads(ChainSplit, ModeOf(ChainSplit, c))) = {}
C21_Witness ==
    /\ pc = "idle" /\ result = "Ok" /\ WitnessesVisible(ChainSplit)
    /\ WalkReads(ChainSplit, "Left") \ WalkReads(ChainSplit, "Right") # {}
    /\ WalkReads(ChainSplit, "Right") \ WalkReads(ChainSplit, "Left") # {}
    /\ \A c \in ChildUIds(ChainSplit) : SavedWitnesses(ChainSplit, c) = {WalkReads(ChainSplit, ModeOf(ChainSplit, c))}

\* The retention walk run again over a partial trie: the account nodes of the
\* witness can be opened, any other node is known by its hash only. ok: no
\* node outside the witness had to be opened.
RECURSIVE ReplayNode(_, _, _, _, _, _)
ReplayNode(h, S, lo, boundary_account, mode, witness) ==
    LET hi == lo + Pow2(h)
        whole == IF mode = "Left" THEN hi <= boundary_account ELSE lo >= boundary_account
        none == IF mode = "Left" THEN lo >= boundary_account ELSE hi <= boundary_account
    IN  IF S = {} \/ none THEN [ok |-> TRUE, keep |-> {}]
        ELSE IF whole THEN [ok |-> TRUE, keep |-> S]
        ELSE LET half == Pow2(h - 1)
                 S0 == {x \in S : x[1] < half}
                 S1 == {<<x[1] - half, x[2]>> : x \in {y \in S : y[1] >= half}}
                 r0 == ReplayNode(h - 1, S0, lo, boundary_account, mode, witness)
                 r1 == ReplayNode(h - 1, S1, lo + half, boundary_account, mode, witness)
                 keep == r0.keep \cup {<<x[1] + half, x[2]>> : x \in r1.keep}
                 single == IF keep = S \/ (r0.keep # {}) = (r1.keep # {}) THEN {}
                           ELSE IF r0.keep # {} THEN {<<h - 1, S0>>} ELSE {<<h - 1, S1>>}
             IN  [ok |-> <<h, S>> \in witness /\ r0.ok /\ r1.ok /\ single \subseteq witness, keep |-> keep]
Replay(root, boundary_account, mode, witness) ==
    LET r == ReplayNode(Depth, KeysOf(root), 0, boundary_account, mode, witness)
    IN  [ok |-> (root = EmptyRoot \/ root \in witness) /\ r.ok,
         state_root |-> Root(Trie(r.keep, RetainReceipts(TrieOf(root).rcpt, mode)))]
ReplayOf(ev, c) ==
    Replay(ParentRootOf(ev), ev.boundary_account, ModeOf(ev, c), Get(dbTransition, <<ev.block_hash, c.shard_id>>).partial_state)

FlatStartsLogged == {i \in 1 .. Len(log) : log[i][1] = "flat_start"}
\* A call that passed the gate, committed and returned Ok.
SplitCallReturnedOk == pc = "idle" /\ result = "Ok" /\ event # {} /\ LogHas("commit")
HandedEvent == flat[Len(flat)].event
\* A step inside split_shard, from the derivation of the event to the return.
InSplitShard == pc \in {"set_mapping", "freeze", "get_chunk_extra", "retain", "save", "commit", "flat"}

\* C23: single handoff of the same event. A call starts the flat-storage
\* resharder at most once, and exactly once when it passed the gate, committed
\* and returned Ok; the event handed over is the one derived at the gate, whose
\* parent and children are the mapping entries written and whose block hash
\* and boundary account gave the child ChunkExtras and state roots; no step
\* of split_shard changes the event.
C23_SingleHandoff ==
    /\ [](/\ Cardinality(FlatStartsLogged) <= 1
          /\ SplitCallReturnedOk =>
                /\ Cardinality(FlatStartsLogged) = 1
                /\ Len(flat) >= 1
                /\ HandedEvent = TheEvent
                /\ dbMapping = MappingEntries(HandedEvent)
                /\ \A c \in ChildUIds(HandedEvent) :
                      /\ Has(dbChunkExtra, <<HandedEvent.block_hash, c>>)
                      /\ ChildRootOf(HandedEvent, c) = NewRootOf(HandedEvent, c))
    /\ [][(InSplitShard => event' = event) /\ (Len(flat') > Len(flat) => Len(flat') = Len(flat) + 1 /\ pc = "flat")]_vars
C23_Witness ==
    /\ SplitCallReturnedOk /\ Len(flat) = 1 /\ HandedEvent = TheEvent
    /\ HandedEvent.left_child_shard # HandedEvent.right_child_shard
    /\ ChildRootOf(HandedEvent, HandedEvent.left_child_shard) # ChildRootOf(HandedEvent, HandedEvent.right_child_shard)

\* C24: mapping monotonicity. An entry child -> parent of the ShardUIdMapping,
\* once written, is kept by every step of that call and of every later call,
\* failing or not: it is not removed and the child is not mapped to another
\* parent.
C24_MappingMonotonic ==
    [][\A p \in dbMapping : p \in dbMapping' /\ \A q \in dbMapping' : q[1] = p[1] => q[2] = p[2]]_vars
C24_Witness ==
    /\ ncalls = MaxCalls /\ pc = "idle" /\ result \notin {"Ok", "None"}
    /\ dbMapping = MappingEntries(ChainSplit)
    /\ ~LogHas("commit") /\ LogHas("set_mapping")

\* The handle of the manager has been set.
HandleSet == ~keep_going[resharding_handle]
FlatObservable(ev) == \A c \in ChildUIds(ev) : c \in flatStore.ready
FlatNotObservable == flatStore.ready = {}

\* C26: cancellation safety. The handle made at the construction of the
\* manager is the one the worker of the flat-storage resharder looks at: once
\* it is set, the worker persists nothing more. Whenever it is set during the
\* background work, the split is in flat storage either not at all or for both
\* children with every batch copied, and an abandoned task has left it not
\* observable; no turn of the worker and no setting of the handle changes
\* the store the trie split committed.
C26_CancellationSafety ==
    /\ [](/\ FlatNotObservable \/ (FlatObservable(ChainSplit) /\ flatStore.ready = ChildUIds(ChainSplit) /\ flatStore.copied = FlatBatches)
          /\ flatTask = "cancelled" => (HandleSet /\ FlatNotObservable /\ BatchCommitted(ChainSplit))
          /\ flatTask = "done" => FlatObservable(ChainSplit))
    /\ [][/\ HandleSet => flatStore' = flatStore
          /\ (flatStore' # flatStore \/ keep_going' # keep_going \/ flatTask' = "cancelled") =>
                UNCHANGED <<dbVars, memtries>>
          /\ BatchCommitted(ChainSplit) => BatchCommitted(ChainSplit)']_vars
C26_Witness ==
    /\ flatTask = "cancelled" /\ HandleSet /\ flatStore.copied = 1 /\ FlatNotObservable
    /\ BatchCommitted(ChainSplit) /\ NodesVisible(ChainSplit)

\* The step in which start_resharding of the flat-storage resharder fails: the
\* call is at the handoff and returns with no handoff made.
FlatStartFails == pc = "flat" /\ pc' = "idle" /\ flat' = flat

\* C27: flat-storage start failure. When start_resharding of the flat-storage
\* resharder returns an error, the call returns that error, and the mapping
\* entries and the committed batch of the split (ChunkExtras, witnesses,
\* nodes) are in the store before and after: nothing is rolled back.
C27_FlatStartFailure ==
    /\ []((pc = "idle" /\ result = "Err:FlatStorage") =>
            (Durable(TheEvent) /\ LogHas("commit") /\ ~LogHas("flat_start")))
    /\ [][FlatStartFails =>
            /\ result' = "Err:FlatStorage"
            /\ BatchCommitted(TheEvent)
            /\ UNCHANGED <<dbVars, memtries, flatTask>>]_vars
C27_Witness ==
    /\ pc = "idle" /\ result = "Err:FlatStorage" /\ flat = <<>>
    /\ Durable(TheEvent) /\ SplitInsertions(TheEvent) # {}

\* What an earlier run of the split committed for its children.
CommittedChunkExtras(ev) == {p \in dbChunkExtra : p[1][1] = ev.block_hash /\ p[1][2] \in ChildUIds(ev)}
CommittedTransitions(ev) == {p \in dbTransition : p[1][1] = ev.block_hash /\ p[1][2] \in {c.shard_id : c \in ChildUIds(ev)}}
\* A run that is at its commit while an earlier run's commit is in the store.
RerunAtCommit == pc = "commit" /\ ChunkExtrasVisible(ChainSplit) /\ WitnessesVisible(ChainSplit)

ParentPersisted == Has(dbChunkExtra, <<ChainSplit.block_hash, ChainSplit.parent_shard>>)
ChildProductsAbsent == ChunkExtrasAbsent(ChainSplit) /\ WitnessesAbsent(ChainSplit)

\* C29: commit ordering relative to ChunkExtras. The child ChunkExtras of the
\* block come into the store only by the commit of a split, both at once, and
\* only when the parent's ChunkExtra for the block is in the store. When the
\* parent's ChunkExtra is missing, a call that passed the gate returns the
\* DBNotFoundErr from get_chunk_extra, and no step puts a child ChunkExtra, a
\* witness or a trie node into the store.
C29_CommitOrdering ==
    /\ [](/\ ~ChunkExtrasAbsent(ChainSplit) => (ParentPersisted /\ ChunkExtrasVisible(ChainSplit))
          /\ ~ParentPersisted => ChildProductsAbsent
          /\ (pc \in {"retain", "save", "commit", "flat"}) => ParentPersisted)
    /\ [][/\ (ChunkExtrasAbsent(ChainSplit) /\ ~ChunkExtrasAbsent(ChainSplit)') =>
                (pc = "commit" /\ ParentPersisted /\ ChunkExtrasVisible(ChainSplit)')
          /\ (pc = "get_chunk_extra" /\ ~ParentPersisted) =>
                (pc' = "idle" /\ result' = "Err:DBNotFound")
          /\ ~ParentPersisted => UNCHANGED <<dbChunkExtra, dbTransition, dbState>>]_vars
C29_Witness ==
    /\ pc = "idle" /\ result = "Err:DBNotFound" /\ ~ParentPersisted /\ ChildProductsAbsent
    /\ memtries[ChainSplit.parent_shard].frozen /\ LogHas("freeze")

\* The parent trie holds account keys only, all of accounts at or after the
\* boundary account.
AllKeysAtOrAfterBoundary(ev) ==
    /\ TrieOf(ParentRootOf(ev)).rcpt = NoReceipts
    /\ \A x \in KeysOf(ParentRootOf(ev)) : x[1] >= ev.boundary_account
\* Nothing of the parent trie is due to the child: no account key on its side
\* of the boundary account and none of the receipt structures it keeps.
RetainsNothing(ev, c) ==
    /\ RetainReceipts(TrieOf(ParentRootOf(ev)).rcpt, ModeOf(ev, c)) = NoReceipts
    /\ \A x \in KeysOf(ParentRootOf(ev)) :
          IF ModeOf(ev, c) = "Left" THEN x[1] >= ev.boundary_account ELSE x[1] < ev.boundary_account
\* The root a walk installed in the child's memtrie is the one of its ChunkExtra.
RootInstalled(ev, c) == ChildRootOf(ev, c) \in memtries[c].roots \/ ~memtries[c].loaded

\* C30: boundary at the first key. When every key of the parent trie is of an
\* account at or after the boundary account, the split gives the left child
\* the empty-trie state root and the right child the parent's state root; and
\* a child to which nothing of the parent trie is due gets the empty-trie root.
C30_BoundaryAtFirstKey ==
    ChunkExtrasVisible(ChainSplit) =>
        /\ AllKeysAtOrAfterBoundary(ChainSplit) =>
              /\ ChildRootOf(ChainSplit, ChainSplit.left_child_shard) = EmptyRoot
              /\ ChildRootOf(ChainSplit, ChainSplit.right_child_shard) = ParentRootOf(ChainSplit)
        /\ \A c \in ChildUIds(ChainSplit) :
              /\ RetainsNothing(ChainSplit, c) => ChildRootOf(ChainSplit, c) = EmptyRoot
              /\ RootInstalled(ChainSplit, c)
C30_Witness ==
    /\ ChunkExtrasVisible(ChainSplit) /\ AllKeysAtOrAfterBoundary(ChainSplit)
    /\ Cardinality(KeysOf(ParentRootOf(ChainSplit))) >= 2
    /\ \E x \in KeysOf(ParentRootOf(ChainSplit)) : x[1] = ChainSplit.boundary_account
    /\ ChildRootOf(ChainSplit, ChainSplit.left_child_shard) = EmptyRoot
    /\ ChildRootOf(ChainSplit, ChainSplit.right_child_shard) = ParentRootOf(ChainSplit)

\* C31 (as claimed): receipt size limit. A transaction above the transaction
\* size limit is rejected with TransactionSizeExceeded; one whose execution
\* makes a receipt larger than max_receipt_size ends in Failure with
\* ReceiptSizeExceeded; one that makes a receipt below the limit succeeds;
\* and sum_n(5) sent after any of them returns 10.
C31_ReceiptSizeLimit ==
    \A i \in 1 .. (IF test_loop = NotStarted THEN 0 ELSE Len(test_loop.outcomes)) :
        LET o == test_loop.outcomes[i]
        IN  /\ o.tx.size > max_transaction_size => o.status = "InvalidTx:TransactionSizeExceeded"
            /\ o.receipt_size > max_receipt_size => o.status = "Failure:ReceiptSizeExceeded"
            /\ (o.receipt_size > 0 /\ o.receipt_size < max_receipt_size) => o.status = "SuccessValue"
            /\ o.tx.method = "sum_n" => (o.status = "SuccessValue" /\ o.value = 10)

\* ---- TestEpochConfigBuilder
\* The fields of the builder a setter call writes, and the value it writes.
FieldsWritten(c) ==
    IF c.method \in {"kickouts_standard_80_percent", "kickouts_for_chunk_validators_only"}
    THEN {"block_producer_kickout_threshold", "chunk_producer_kickout_threshold", "chunk_validator_only_kickout_threshold"}
    ELSE {c.method}
ValueWritten(c, field) ==
    IF c.method = "kickouts_standard_80_percent" THEN 80
    ELSE IF c.method = "kickouts_for_chunk_validators_only"
    THEN (IF field = "chunk_validator_only_kickout_threshold" THEN 50 ELSE 0)
    ELSE c.value
\* The fields of the built EpochConfig a builder field decides.
BuiltFrom(config, field) ==
    IF field = "validators_spec"
    THEN <<config.num_block_producer_seats, config.num_chunk_producer_seats, config.num_chunk_validator_seats>>
    ELSE config[field]
ExpectedFrom(field, value) ==
    IF field = "validators_spec"
    THEN LET setup == derive_validator_setup(value)
         IN  <<setup.num_block_producer_seats, setup.num_chunk_producer_seats, setup.num_chunk_validator_seats>>
    ELSE value
BuilderDefault(field) ==
    CASE field = "epoch_length" -> 5
      [] field = "shard_layout" -> "single_shard"
      [] field = "validators_spec" -> <<1, 1, 1>>
      [] field \in {"block_producer_kickout_threshold", "chunk_producer_kickout_threshold", "chunk_validator_only_kickout_threshold"} -> 0
      [] OTHER -> "test_epoch_config"
EpochConfigBuilt == epoch_config_builder # NotStarted /\ epoch_config_builder.epoch_config # {}
BuiltEpochConfig == CHOOSE config \in epoch_config_builder.epoch_config : TRUE
RECURSIVE ApplyCalls(_, _)
ApplyCalls(self, calls) == IF calls = <<>> THEN self ELSE ApplyCalls(apply_setter(self, Head(calls)), Tail(calls))
\* The config the same calls give when made in the order perm.
BuiltInOrder(calls, perm) ==
    build_epoch_config(ApplyCalls(TestEpochConfigBuilder_new, [i \in 1 .. Len(calls) |-> calls[perm[i]]]))
\* perm keeps the relative order of every two calls that write a common field.
KeepsOverlapOrder(calls, perm) ==
    \A i, j \in 1 .. Len(calls) :
        (i < j /\ FieldsWritten(calls[perm[i]]) \cap FieldsWritten(calls[perm[j]]) # {}) => perm[i] < perm[j]
DefaultsWhenUnset ==
    EpochConfigBuilt =>
        \A field \in EpochConfigBuilderFields :
            (\A i \in 1 .. Len(epoch_config_builder.calls) : field \notin FieldsWritten(epoch_config_builder.calls[i]))
                => BuiltFrom(BuiltEpochConfig, field) = BuilderDefault(field)

\* C32 (as claimed): build with nothing set gives a single shard, one block
\* and chunk producer, epoch_length 5 and kickout thresholds 0; every field
\* set through a builder method has exactly the set value in the built
\* EpochConfig, whatever the order in which the setters were called.
C32_OrderIndependentSetters ==
    /\ DefaultsWhenUnset
    /\ EpochConfigBuilt =>
        LET calls == epoch_config_builder.calls
        IN  /\ \A i \in 1 .. Len(calls) : \A field \in FieldsWritten(calls[i]) :
                    BuiltFrom(BuiltEpochConfig, field) = ExpectedFrom(field, ValueWritten(calls[i], field))
            /\ \A perm \in Permutations(1 .. Len(calls)) : BuiltInOrder(calls, perm) = BuiltEpochConfig

\* C32 (amended): build with nothing set gives a single shard, one block and
\* chunk producer, epoch_length 5 and kickout thresholds 0; every field written
\* by a setter has in the built EpochConfig the value of the last call that
\* wrote it, so the result is the same in every order of the calls that keeps
\* the order of the calls writing a common field (a repeated setter, or
\* kickouts_standard_80_percent and kickouts_for_chunk_validators_only).
C32_LastSetterWins ==
    /\ DefaultsWhenUnset
    /\ EpochConfigBuilt =>
        LET calls == epoch_config_builder.calls
        IN  /\ \A i \in 1 .. Len(calls) : \A field \in FieldsWritten(calls[i]) :
                    (\A j \in (i + 1) .. Len(calls) : field \notin FieldsWritten(calls[j]))
                        => BuiltFrom(BuiltEpochConfig, field) = ExpectedFrom(field, ValueWritten(calls[i], field))
            /\ \A perm \in Permutations(1 .. Len(calls)) :
                    KeepsOverlapOrder(calls, perm) => BuiltInOrder(calls, perm) = BuiltEpochConfig
\* Both kickout setters were called, the 80 percent one last, with another
\* setter, and the config was built.
C32_Witness ==
    /\ EpochConfigBuilt
    /\ Len(epoch_config_builder.calls) = 3
    /\ epoch_config_builder.calls[1].method = "kickouts_for_chunk_validators_only"
    /\ epoch_config_builder.calls[2].method = "validators_spec"
    /\ epoch_config_builder.calls[3].method = "kickouts_standard_80_percent"
    /\ BuiltEpochConfig.chunk_validator_only_kickout_threshold = 80
    /\ BuiltEpochConfig.num_chunk_validator_seats > 1

\* ---- mirror RunCmd
RunCmdStarted == run_cmd # NotStarted
\* The file given with --secret-file holds a secret.
SecretFileHoldsSecret == run_cmd.self.secret_file \cap {"secret_a", "secret_b"} # {}
\* run is past the choice of the secret.
RunCmdProceeded == run_cmd.pc \in {"system", "running"} \/ run_cmd.started # {}

RetainedStep(mode) == pc = "retain" /\ pc' = "save" /\ TheChild.mode = mode
OtherChild(ev, c) == IF c = ev.left_child_shard THEN ev.right_child_shard ELSE ev.left_child_shard
\* C34: both child walks start from the same parent state root, the
\* state_root of the parent's ChunkExtra at the block. A walk changes neither
\* the parent's memtries nor those of the other child nor the ChunkExtra read,
\* so the root and the key set the right child is retained from are those the
\* left child was retained from; the right child's changes are those of a walk
\* of the parent root alone, and the second walk finds its root whenever the
\* first one did.
C34_SameParentRoot ==
    [][/\ \A mode \in {"Left", "Right"} :
            RetainedStep(mode) =>
                /\ (CHOOSE x \in cur' : TRUE).trie_changes = retain_split_shard(ParentRootOf(TheEvent), TheEvent.boundary_account, mode)
                /\ memtries'[TheEvent.parent_shard] = memtries[TheEvent.parent_shard]
                /\ memtries'[OtherChild(TheEvent, TheChild.uid)] = memtries[OtherChild(TheEvent, TheChild.uid)]
                /\ parentExtra' = parentExtra
                /\ ParentRootOf(TheEvent)' = ParentRootOf(TheEvent)
       /\ RetainedStep("Right") =>
                KeysOf((CHOOSE x \in cur' : TRUE).new_state_root) = {k \in KeysOf(ParentRootOf(TheEvent)) : k[1] >= TheEvent.boundary_account}
       /\ (pc = "retain" /\ idx = 2 /\ pc' # "retain") => pc' = "save"]_vars
\* The right child was retained after a left child whose installed root is not
\* the parent's, and neither child is empty.
C34_Witness ==
    /\ pc = "save" /\ idx = 2
    /\ TheCur.new_state_root # ParentRootOf(TheEvent)
    /\ KeysOf(TheCur.new_state_root) # {}
    /\ \E p \in batch.chunk_extras :
            /\ p[1] = <<TheEvent.block_hash, TheEvent.left_child_shard>>
            /\ p[2].state_root # ParentRootOf(TheEvent)
            /\ KeysOf(p[2].state_root) # {}
            /\ p[2].state_root \in memtries[TheEvent.left_child_shard].roots
            /\ p[2].state_root \notin memtries[TheEvent.right_child_shard].roots

\* ---- what a failed attempt leaves in memory
\* A step in which the split returns an error after freeze_mem_tries.
FailsAfterFreeze == pc \in {"get_chunk_extra", "retain", "save", "commit"} /\ pc' = "idle"
\* The roots the attempt has installed so far, each with its child.
InstalledSoFar ==
    {<<p[1][2], p[2].state_root>> : p \in batch.chunk_extras}
        \cup (IF pc = "save" THEN {<<TheChild.uid, TheCur.new_state_root>>} ELSE {})
\* C35: in-memory effects of a failed attempt. When the split returns an error
\* after freeze_mem_tries, the chain-store batch is dropped and nothing of it
\* reaches ChunkExtra, StateTransitionData or State; the memtries are left as
\* they were: the parent stays frozen and every child root installed by
\* apply_memtrie_changes stays installed; the ShardUIdMapping entries stay.
\* Nothing later in the process unfreezes the parent or removes a root.
C35_FailedAttemptInMemory ==
    [][/\ FailsAfterFreeze =>
            /\ result' \notin {"Ok", "None"}
            /\ batch' = EmptyBatch /\ trieUpdate' = {}
            /\ UNCHANGED <<dbChunkExtra, dbTransition, dbState>>
            /\ memtries' = memtries
            /\ memtries[TheEvent.parent_shard].loaded => memtries'[TheEvent.parent_shard].frozen
            /\ \A i \in InstalledSoFar : i[2] \in memtries'[i[1]].roots
            /\ MappingEntries(TheEvent) \subseteq dbMapping'
       /\ \A u \in AllShardUIds :
            /\ memtries[u].frozen => memtries'[u].frozen
            /\ (memtries[u].frozen \/ \E ev \in event : u \in {ev.left_child_shard, ev.right_child_shard} /\ memtries[ev.parent_shard].frozen)
                    => memtries[u].roots \subseteq memtries'[u].roots]_vars
\* The attempt failed while the right child's ChunkExtra was built: the parent
\* is frozen, the left child's own root is installed, the mapping is there and
\* no ChunkExtra of a child is in the store.
C35_Witness ==
    /\ pc = "idle" /\ result = "Err:Io"
    /\ Len(log) > 0 /\ log[Len(log)] = <<"install_root", ChainSplit.right_child_shard.shard_id>>
    /\ memtries[ChainSplit.parent_shard].frozen
    /\ \E r \in memtries[ChainSplit.left_child_shard].roots : r \notin memtries[ChainSplit.parent_shard].roots
    /\ MappingEntries(ChainSplit) \subseteq dbMapping
    /\ \A p \in dbChunkExtra : p[1][2] \notin {ChainSplit.left_child_shard, ChainSplit.right_child_shard}
    /\ dbTransition = {}

\* ---- the subtraction of the parent's receipt queues
\* The step that builds and saves the right child's ChunkExtra from a parent
\* ChunkExtra that has a congestion info.
RightChildSave == pc = "save" /\ TheChild.mode = "Right" /\ TheParentExtra.congestion_info # {}
ParentCongestionInfo == CHOOSE x \in TheParentExtra.congestion_info : TRUE
ParentReceipts == TrieOf(TheParentExtra.state_root).rcpt
\* Gas of the queues the parent trie holds, over the shards of the layout.
QueuedGas(r) == (IF 0 \in r.grouped THEN r.buffered[0] ELSE 0) + (IF 1 \in r.grouped THEN r.buffered[1] ELSE 0)
SavedRightCongestionInfo ==
    CHOOSE x \in (CHOOSE p \in batch.chunk_extras : p[1] = <<TheEvent.block_hash, TheEvent.right_child_shard>>)[2].congestion_info : TRUE
\* C36: missing receipt-group queue. In the right child's recomputation a
\* destination shard for which the parent trie holds no ReceiptGroupsQueue is
\* skipped and subtracts nothing: what is subtracted is the gas and the bytes
\* of the queues found, and a panic of the step is never due to a missing
\* queue but to counters that do not match the trie. A failure to load a queue
\* returns an error with nothing of the batch committed, before or after.
C36_MissingQueueSkipped ==
    [][RightChildSave =>
        /\ pc' \in {"retain", "commit"} =>
            /\ ParentCongestionInfo.buffered_receipts_gas = QueuedGas(ParentReceipts)
            /\ SavedRightCongestionInfo'.buffered_receipts_gas = 0
            /\ SavedRightCongestionInfo'.receipt_bytes = ParentCongestionInfo.receipt_bytes - BytesOf(QueuedGas(ParentReceipts))
            /\ SavedRightCongestionInfo'.delayed_receipts_gas = ParentCongestionInfo.delayed_receipts_gas
        /\ pc' = "crashed" =>
            \/ ParentCongestionInfo.buffered_receipts_gas # QueuedGas(ParentReceipts)
            \/ ParentCongestionInfo.receipt_bytes # BytesOf(ParentReceipts.delayed) + BytesOf(SumBuffered(ParentReceipts))
            \/ \E d \in ParentReceipts.grouped : ParentReceipts.buffered[d] > U64_MAX
        /\ pc' = "idle" =>
            /\ result' = "Err:Io"
            /\ batch' = EmptyBatch /\ trieUpdate' = {}
            /\ UNCHANGED <<dbChunkExtra, dbTransition, dbState>>
            /\ dbTransition = {}
            /\ \A p \in dbChunkExtra : p[1][2] \notin {TheEvent.left_child_shard, TheEvent.right_child_shard}]_vars
\* The right child's ChunkExtra was saved for a parent that has a queue for
\* destination 1 only, with receipts in it: destination 0 was skipped.
C36_Witness ==
    /\ pc = "commit"
    /\ TheParentExtra.congestion_info # {}
    /\ ParentReceipts.grouped = {1}
    /\ ParentCongestionInfo.buffered_receipts_gas > 0
    /\ SavedRightCongestionInfo.buffered_receipts_gas = 0
    /\ SavedRightCongestionInfo.delayed_receipts_gas > 0

\* ---- widths of the subtraction
\* The queue of destination d in the parent trie: its gas, 0 without a queue.
QueueGas(d) == IF d \in ParentReceipts.grouped THEN ParentReceipts.buffered[d] ELSE 0
\* Some queue's total gas does not fit in 64 bits.
QueueGasOverflows == \E d \in ParentShardIds : QueueGas(d) > U64_MAX
\* Some queue holds more gas or bytes than the counter has left when the loop,
\* which takes the destinations in the order of the layout, comes to it.
QueueExceedsCounter ==
    \/ QueueGas(0) > ParentCongestionInfo.buffered_receipts_gas
    \/ BytesOf(QueueGas(0)) > ParentCongestionInfo.receipt_bytes
    \/ QueueGas(1) > ParentCongestionInfo.buffered_receipts_gas - QueueGas(0)
    \/ BytesOf(QueueGas(1)) > ParentCongestionInfo.receipt_bytes - BytesOf(QueueGas(0))
\* C37: no silent wrap in the congestion subtraction. When the right child's
\* ChunkExtra is built and a queue's total gas does not fit in 64 bits, or a
\* queue's gas or size exceeds what is left in its counter, the step saves no
\* ChunkExtra: the split panics (or has returned the error of a load before
\* it); when the step saves one, its counters are the parent's less the queues
\* and not below zero. No stored or saved congestion info has a negative counter.
C37_NoSilentWrap ==
    /\ [](\A p \in dbChunkExtra \cup batch.chunk_extras : \A ci \in p[2].congestion_info :
            ci.buffered_receipts_gas >= 0 /\ ci.receipt_bytes >= 0 /\ ci.delayed_receipts_gas >= 0)
    /\ [][RightChildSave =>
            /\ (QueueGasOverflows \/ QueueExceedsCounter) =>
                    /\ pc' \in {"crashed", "idle"}
                    /\ result' \in {"Panic", "Err:Io"}
                    /\ batch'.chunk_extras \subseteq batch.chunk_extras
                    /\ UNCHANGED dbChunkExtra
            /\ pc' \in {"retain", "commit"} =>
                    /\ SavedRightCongestionInfo'.buffered_receipts_gas = ParentCongestionInfo.buffered_receipts_gas - QueueGas(0) - QueueGas(1)
                    /\ SavedRightCongestionInfo'.receipt_bytes = ParentCongestionInfo.receipt_bytes - BytesOf(QueueGas(0)) - BytesOf(QueueGas(1))]_vars
\* The split panicked while the right child's ChunkExtra was built, on a queue
\* whose gas is above a u64 and which the stored counters account for.
C37_Witness ==
    /\ pc = "crashed" /\ idx = 2 /\ cur # {}
    /\ TheParentExtra.congestion_info # {}
    /\ QueueGasOverflows
    /\ ParentCongestionInfo.buffered_receipts_gas = SumBuffered(ParentReceipts)
    /\ \A p \in batch.chunk_extras : p[1][2] # TheEvent.right_child_shard

\* ---- TestGenesisBuilder
GenesisBuilt == genesis_builder # NotStarted /\ genesis_builder.result = "Ok"
BuiltGenesis == CHOOSE g \in genesis_builder.genesis : TRUE
\* The user accounts the caller gave, and the Account records of an account.
GivenUserAccounts == genesis_builder.self.user_accounts
GivenUserIds == {GivenUserAccounts[i].account_id : i \in 1 .. Len(GivenUserAccounts)}
AccountRecordsOf(g, account_id) == {i \in 1 .. Len(g.records) : g.records[i].kind = "Account" /\ g.records[i].account_id = account_id}
TheAccountRecord(g, account_id) == g.records[CHOOSE i \in AccountRecordsOf(g, account_id) : TRUE]

\* C38 (as claimed): genesis supply and records. In the built Genesis,
\* total_supply is the sum of all validator stakes plus the sum of all user
\* balances, and every validator account and every user account has exactly
\* one Account record: a validator that is also a user account with its user
\* balance and its stake locked, a validator that is not one with balance 0
\* and its stake locked.
C38_SupplyAndRecords ==
    GenesisBuilt =>
        LET g == BuiltGenesis
        IN  /\ g.total_supply = SumOf(g.validators, "amount") + SumOf(GivenUserAccounts, "balance")
            /\ \A i \in 1 .. Len(GivenUserAccounts) :
                    /\ Cardinality(AccountRecordsOf(g, GivenUserAccounts[i].account_id)) = 1
                    /\ TheAccountRecord(g, GivenUserAccounts[i].account_id).amount = GivenUserAccounts[i].balance
            /\ \A i \in 1 .. Len(g.validators) :
                    /\ Cardinality(AccountRecordsOf(g, g.validators[i].account_id)) = 1
                    /\ TheAccountRecord(g, g.validators[i].account_id).locked = g.validators[i].amount
                    /\ g.validators[i].account_id \notin GivenUserIds \cup {g.protocol_treasury_account}
                            => TheAccountRecord(g, g.validators[i].account_id).amount = 0

\* C39: genesis account checks. build panics when an account id was added
\* twice as a user account and builds a genesis otherwise; the genesis has
\* exactly one Account record for the protocol treasury account; when the
\* treasury was not among the user accounts its record has balance 0 and no
\* access key, and total_supply is the validators' stakes plus the balances of
\* the user accounts given.
C39_AccountChecks ==
    (genesis_builder # NotStarted /\ genesis_builder.result # "None") =>
        /\ genesis_builder.result = "Panic" <=> has_duplicate_user_accounts(GivenUserAccounts)
        /\ genesis_builder.result = "Panic" => genesis_builder.genesis = {}
        /\ GenesisBuilt =>
            LET g == BuiltGenesis
                treasury == g.protocol_treasury_account
            IN  /\ genesis_builder.self.protocol_treasury_account \in {{}, {treasury}}
                /\ genesis_builder.self.protocol_treasury_account = {} => treasury = "near"
                /\ Cardinality(AccountRecordsOf(g, treasury)) = 1
                /\ treasury \notin GivenUserIds =>
                        /\ TheAccountRecord(g, treasury).amount = 0
                        /\ \A i \in 1 .. Len(g.records) : g.records[i].kind = "AccessKey" => g.records[i].account_id # treasury
                /\ g.total_supply = SumOf(g.validators, "amount") + SumOf(GivenUserAccounts, "balance")
\* A genesis built for a funded user account and a treasury, chosen by the
\* caller, that is a validator and not a user account.
C39_Witness ==
    /\ GenesisBuilt
    /\ BuiltGenesis.protocol_treasury_account = "validator0"
    /\ genesis_builder.self.protocol_treasury_account = {"validator0"}
    /\ GivenUserIds = {"alice"}
    /\ BuiltGenesis.total_supply > SumOf(BuiltGenesis.validators, "amount")
    /\ TheAccountRecord(BuiltGenesis, "validator0").locked > 0

====
